---- MODULE Spec2Model ----
(***************************************************************************)
(* State-machine model of the recording workflow engine of                 *)
(* radio-stream-recorder: SchedulerService admission control,              *)
(* RecordingSessionManager workflow, StreamRecorder capture process,       *)
(* SCPTransferService upload loop and the durable TransferQueue.           *)
(*                                                                         *)
(* Threads of the program are modelled by program counters: one counter    *)
(* per APScheduler job run, per workflow thread, per recorder thread and   *)
(* one for the transfer worker.  Outcomes of the outside world (stream     *)
(* reachable or not, exit code of ffmpeg, result of an upload) are         *)
(* nondeterministic choices.                                               *)
(***************************************************************************)
EXTENDS Integers, Sequences, FiniteSets, TLC

(***************************************************************************)
(* Bounds of the model and configuration values (src/config.py reads them  *)
(* from the environment; the model uses small values).                     *)
(***************************************************************************)
MaxSessions == 2
MaxSchedules == 2
MaxExtraStarts == 1
MaxTransfers == 1
MaxTime == 1
MaxPriority == 0
MaxQueueLen == 2
MaxUploads == 3
MaxReadyTransfers == 2
MaxDrainPriority == 1
MaxDrainTime == 2
MaxDrainRetries == 3
MaxChunks == 3
MaxClock == 3
CronSearchMinutes == 3
MAX_CONCURRENT_RECORDINGS == 1
DEFAULT_MAX_RETRIES == 1
RETRY_DELAY_SECONDS == 1

\* workflow threads a session can have had: one per attempt, plus the
\* repeated start requests
MaxStarts == DEFAULT_MAX_RETRIES + 1 + MaxExtraStarts

Sessions == 1..MaxSessions
Schedules == 1..MaxSchedules
TransferIds == 1..MaxTransfers
QueueFile(id) == <<0, "mp3", id>>
Slots == 1..MaxStarts

WorkflowStage ==
    {"initializing", "recording", "processing", "transferring",
     "completed", "failed", "cancelled"}
TerminalStages == {"completed", "failed", "cancelled"}
ActiveStages == {"recording", "processing", "transferring"}

VARIABLES
    current_stage,       \* RecordingSessionManager.current_stage ("none": not constructed)
    retry_count,         \* RecordingSessionManager.retry_count
    error_message,       \* RecordingSessionManager.error_message (tag, "none" = None)
    stop_event,          \* RecordingSessionManager.stop_event
    raw_recording_path,  \* attempt whose timestamp names the raw path (0 = None)
    processed_mp3_path,  \* attempt whose timestamp names the processed path (0 = None)
    stream_recorder,     \* RecordingSessionManager.stream_recorder (0 = None, else slot)
    starts,              \* number of workflow threads started so far for the session
    wf,                  \* position of each workflow thread of each session
    recorder,            \* the StreamRecorder created by each workflow thread
    files,               \* local files on disk: <<session, kind, path>>
    cleanup_policy,      \* config.CLEANUP_AFTER_TRANSFER
    proc_ok,             \* history: capture and processing succeeded in the running attempt
    stopped_in,          \* history: stage in which a stop request was accepted ("none" = no stop)
    capture_fault,       \* history: the capture of the running attempt failed by itself
    job,                 \* position of the APScheduler job run of each schedule
    active_sessions,     \* SchedulerService.active_sessions (ids of the tracked managers)
    session_db,          \* status of the RecordingSession record of each session id
    fire_log,            \* history: outcome of the last admission check of each schedule
    tq_db,               \* transfer_queue table of the durable store, by transfer id
    tq_queue,            \* TransferQueue._queue: the in-memory ready queue (FIFO)
    worker,              \* position of the worker thread and the transfer it holds
    now,                 \* wall clock (datetime.now(), coarse units)
    uploads,             \* history: uploads of each entry's file attempted so far
    enqueued,            \* history: max_retries each entry was enqueued with (0: not enqueued)
    exhausted,           \* history: stored entries out of retries, no operator call since
    manual,              \* history: entries an operator has retried or removed
    uploaded,            \* history: entries whose upload has succeeded
    tq_call,             \* history: the last call made on the queue and what it returned
    scp,                 \* the transfer_file call in progress on the SCPTransferService
    status_callback,     \* what the registered stage-change callback does when called
    progress_callback,   \* what the registered progress callback does when called
    lock,                \* the thread that holds RecordingSessionManager._lock
    cb_pc,               \* the workflow thread between and inside its notifications
    plan,                \* the notifications the workflow makes, given how its stages end
    next_call,           \* index in plan of the next notification
    stages_written,      \* history: the stages written by _update_status, in order
    schedule_db,         \* ScheduleRepository: the stored triggers, by id
    aps_running,         \* BackgroundScheduler.running
    aps_jobs,            \* the job store of the BackgroundScheduler: the jobs of each id
    session_schedule,    \* RecordingSession.schedule_id of the session records
    sched_call,          \* history: the last trigger operation called and what it returned
    evaluated_at         \* history: the time of the last fire evaluation of each trigger

sessVars ==
    <<current_stage, retry_count, error_message, stop_event, raw_recording_path,
      processed_mp3_path, stream_recorder, starts, wf, recorder, files,
      cleanup_policy, proc_ok, stopped_in, capture_fault>>

schedVars == <<job, active_sessions, session_db, fire_log>>

queueVars ==
    <<tq_db, tq_queue, worker, now, uploads, enqueued, exhausted, manual, uploaded,
      tq_call>>

clientVars == <<scp>>

callbackVars ==
    <<status_callback, progress_callback, lock, cb_pc, plan, next_call, stages_written>>

triggerVars ==
    <<schedule_db, aps_running, aps_jobs, session_schedule, sched_call, evaluated_at>>

vars == <<sessVars, schedVars, queueVars, clientVars, callbackVars, triggerVars>>

\* stop_caller: "tested" while a caller of StreamRecorder.stop_recording has
\* passed the status test and has not yet written STOPPING
NoRecorder ==
    [status |-> "idle", stop_event |-> FALSE, process |-> "none",
     thread |-> "none", output_path |-> 0, stop_caller |-> "none"]

\* RecordingSessionManager.__init__
InitManagerFields(S0) ==
    /\ current_stage = [s \in Sessions |-> IF s \in S0 THEN "initializing" ELSE "none"]
    /\ retry_count = [s \in Sessions |-> 0]
    /\ error_message = [s \in Sessions |-> "none"]
    /\ stop_event = [s \in Sessions |-> FALSE]
    /\ raw_recording_path = [s \in Sessions |-> 0]
    /\ processed_mp3_path = [s \in Sessions |-> 0]
    /\ stream_recorder = [s \in Sessions |-> 0]
    /\ starts = [s \in Sessions |-> 0]
    /\ wf = [s \in Sessions |-> [k \in Slots |-> "idle"]]
    /\ recorder = [s \in Sessions |-> [k \in Slots |-> NoRecorder]]
    /\ proc_ok = [s \in Sessions |-> FALSE]
    /\ stopped_in = [s \in Sessions |-> "none"]
    /\ capture_fault = [s \in Sessions |-> FALSE]

\* RecordingSessionManager._update_status: unconditional write of the stage
UpdateStatus(s, stage) == current_stage' = [current_stage EXCEPT ![s] = stage]

SetWf(s, k, pc) == wf' = [wf EXCEPT ![s][k] = pc]

SetRec(s, k, r) == recorder' = [recorder EXCEPT ![s][k] = r]

\* A StreamRecorder object that the manager no longer refers to and whose
\* recording thread has ended is unreachable in the program; its slot holds
\* NoRecorder again.
Collected(recs, s, current) ==
    [recs EXCEPT ![s] = [k \in Slots |->
        IF /\ k # current
           /\ recs[s][k].thread \in {"none", "done"}
           /\ recs[s][k].stop_caller = "none"
           /\ wf[s][k] # "rec_validate"
        THEN NoRecorder ELSE recs[s][k]]]

\* a workflow thread is alive from Thread.start() until _run_workflow returns
WfAlive(s, k) == wf[s][k] \notin {"idle", "done"}

LiveTasks(s) == {k \in Slots : WfAlive(s, k)}

\* RecordingSessionManager._generate_file_paths: the paths carry the timestamp
\* of the call; attempts are at least one second apart, so each attempt has
\* its own pair of paths, named here by the attempt number
GeneratedPath(s) == retry_count[s] + 1

\* start requests made so far beyond one per attempt
ExtraStarts(s) == starts[s] - (retry_count[s] + 1)

\* RecordingSessionManager.start_recording
StartRecording(s) ==
    /\ current_stage[s] = "initializing"
    /\ starts[s] < MaxStarts
    /\ raw_recording_path' = [raw_recording_path EXCEPT ![s] = GeneratedPath(s)]
    /\ processed_mp3_path' = [processed_mp3_path EXCEPT ![s] = GeneratedPath(s)]
    /\ starts' = [starts EXCEPT ![s] = @ + 1]
    /\ SetWf(s, starts[s] + 1, "run")
    /\ UNCHANGED <<current_stage, retry_count, error_message, stop_event,
                   stream_recorder, recorder, files, proc_ok, stopped_in, capture_fault, cleanup_policy>>

\* start_recording in any other stage: refused, only error_message is set
StartRecordingRefused(s) ==
    /\ current_stage[s] \notin {"none", "initializing"}
    /\ error_message[s] # "cannot_start"
    /\ error_message' = [error_message EXCEPT ![s] = "cannot_start"]
    /\ UNCHANGED <<current_stage, retry_count, stop_event, raw_recording_path,
                   processed_mp3_path, stream_recorder, starts, wf, recorder,
                   files, proc_ok, stopped_in, capture_fault, cleanup_policy>>

\* _run_workflow up to the call of StreamRecorder.start_recording:
\* _update_status(RECORDING), a new StreamRecorder on raw_recording_path,
\* StreamRecorder.start_recording sets CONNECTING
WfRun(s, k) ==
    /\ wf[s][k] = "run"
    /\ UpdateStatus(s, "recording")
    /\ stream_recorder' = [stream_recorder EXCEPT ![s] = k]
    /\ recorder' = Collected([recorder EXCEPT ![s][k] =
                                 [NoRecorder EXCEPT !.status = "connecting",
                                                    !.output_path = raw_recording_path[s]]],
                             s, k)
    /\ SetWf(s, k, "rec_validate")
    /\ UNCHANGED <<retry_count, error_message, stop_event, raw_recording_path,
                   processed_mp3_path, starts, files, proc_ok, stopped_in, capture_fault, cleanup_policy>>

\* StreamRecorder.start_recording after CONNECTING: validate_stream_url,
\* then either FAILED or the recording thread is started
WfRecValidate(s, k) ==
    /\ wf[s][k] = "rec_validate"
    /\ \E ok \in BOOLEAN :
        IF ok
        THEN /\ SetRec(s, k, [recorder[s][k] EXCEPT !.thread = "spawn"])
             /\ SetWf(s, k, "rec_wait")
             /\ UNCHANGED <<current_stage, error_message, capture_fault>>
        ELSE /\ SetRec(s, k, [recorder[s][k] EXCEPT !.status = "failed"])
             /\ error_message' = [error_message EXCEPT ![s] = "failed_to_start"]
             /\ SetWf(s, k, "set_failed")
             /\ capture_fault' = [capture_fault EXCEPT ![s] = TRUE]
             /\ UNCHANGED current_stage
    /\ UNCHANGED <<retry_count, stop_event, raw_recording_path, processed_mp3_path,
                   stream_recorder, starts, files, proc_ok, stopped_in, cleanup_policy>>

\* StreamRecorder.stop_recording on recorder r of session s, without the join
RecorderStopped(s, r) ==
    IF recorder[s][r].status \in {"connecting", "recording"}
    THEN [recorder EXCEPT ![s][r].status = "stopping", ![s][r].stop_event = TRUE]
    ELSE recorder

RecThreadAlive(s, r) == recorder[s][r].thread \in {"spawn", "monitor"}

\* the wait loop of _execute_recording_stage: one evaluation of the loop
\* condition on self.stream_recorder.status and of the stop_event test
WfRecWait(s, k) ==
    /\ wf[s][k] = "rec_wait"
    /\ LET r == stream_recorder[s] IN
        IF recorder[s][r].status \in {"connecting", "recording"}
        THEN /\ stop_event[s]
             /\ recorder' = RecorderStopped(s, r)
             /\ SetWf(s, k, "rec_join")
        ELSE /\ SetWf(s, k, "rec_check")
             /\ UNCHANGED recorder
    /\ UNCHANGED <<current_stage, retry_count, error_message, stop_event,
                   raw_recording_path, processed_mp3_path, stream_recorder,
                   starts, files, proc_ok, stopped_in, capture_fault, cleanup_policy>>

\* StreamRecorder.stop_recording called by the workflow thread joins the
\* recording thread before it returns
WfRecJoin(s, k) ==
    /\ wf[s][k] = "rec_join"
    /\ ~RecThreadAlive(s, stream_recorder[s])
    /\ SetWf(s, k, "rec_check")
    /\ UNCHANGED <<current_stage, retry_count, error_message, stop_event,
                   raw_recording_path, processed_mp3_path, stream_recorder,
                   starts, recorder, files, proc_ok, stopped_in, capture_fault, cleanup_policy>>

\* "Check recording result", then the cancel check of _run_workflow and
\* _update_status(PROCESSING)
WfRecCheck(s, k) ==
    /\ wf[s][k] = "rec_check"
    /\ IF recorder[s][stream_recorder[s]].status = "completed"
       THEN IF stop_event[s]
            THEN /\ UpdateStatus(s, "cancelled")
                 /\ SetWf(s, k, "done")
                 /\ UNCHANGED error_message
            ELSE /\ UpdateStatus(s, "processing")
                 /\ SetWf(s, k, "processing")
                 /\ UNCHANGED error_message
       ELSE /\ error_message' = [error_message EXCEPT ![s] = "recording_failed"]
            /\ SetWf(s, k, "set_failed")
            /\ UNCHANGED current_stage
    /\ UNCHANGED <<retry_count, stop_event, raw_recording_path, processed_mp3_path,
                   stream_recorder, starts, recorder, files, proc_ok, stopped_in, capture_fault, cleanup_policy>>

\* _execute_processing_stage (AudioProcessor.process_audio_file writes the
\* processed file; a failed run may leave a partial one), then the second
\* cancel check of _run_workflow and _update_status(TRANSFERRING)
WfProcessing(s, k) ==
    /\ wf[s][k] = "processing"
    /\ \E ok \in BOOLEAN, partial \in BOOLEAN :
        IF ok
        THEN /\ files' = files \cup {<<s, "mp3", processed_mp3_path[s]>>}
             /\ proc_ok' = [proc_ok EXCEPT ![s] = TRUE]
             /\ UNCHANGED error_message
             /\ IF stop_event[s]
                THEN UpdateStatus(s, "cancelled") /\ SetWf(s, k, "done")
                ELSE UpdateStatus(s, "transferring") /\ SetWf(s, k, "transfer")
        ELSE /\ files' = IF partial THEN files \cup {<<s, "mp3", processed_mp3_path[s]>>}
                         ELSE files
             /\ error_message' = [error_message EXCEPT ![s] = "audio_processing_failed"]
             /\ SetWf(s, k, "set_failed")
             /\ UNCHANGED <<proc_ok, current_stage>>
    /\ UNCHANGED <<retry_count, stop_event, raw_recording_path, processed_mp3_path,
                   stream_recorder, starts, recorder, stopped_in, capture_fault, cleanup_policy>>

\* _execute_transfer_stage: a synchronous SCPTransferService.transfer_file of
\* the processed file; on success _run_workflow goes on to COMPLETED and
\* _cleanup_temporary_files.  A failed result returns False without a stage
\* change; an exception is caught and sets FAILED.
WfTransfer(s, k) ==
    /\ wf[s][k] = "transfer"
    /\ \E outcome \in {"success", "failure", "raise"} :
        /\ outcome = "success" => <<s, "mp3", processed_mp3_path[s]>> \in files
        /\ CASE outcome = "success" ->
                  /\ files' = (files \ {<<s, "raw", raw_recording_path[s]>>})
                                \ (IF cleanup_policy
                                   THEN {<<s, "mp3", processed_mp3_path[s]>>} ELSE {})
                  /\ UpdateStatus(s, "completed")
                  /\ UNCHANGED error_message
             [] outcome = "failure" ->
                  /\ error_message' = [error_message EXCEPT ![s] = "transfer_failed"]
                  /\ UNCHANGED <<current_stage, files>>
             [] outcome = "raise" ->
                  /\ error_message' = [error_message EXCEPT ![s] = "transfer_stage_error"]
                  /\ UNCHANGED <<current_stage, files>>
        /\ SetWf(s, k, IF outcome = "raise" THEN "set_failed" ELSE "done")
    /\ UNCHANGED <<retry_count, stop_event, raw_recording_path, processed_mp3_path,
                   stream_recorder, starts, recorder, proc_ok, stopped_in, capture_fault, cleanup_policy>>

\* the failing paths of the stages: self.error_message has been assigned,
\* now _update_status(WorkflowStage.FAILED) and the return of _run_workflow
WfSetFailed(s, k) ==
    /\ wf[s][k] = "set_failed"
    /\ UpdateStatus(s, "failed")
    /\ SetWf(s, k, "done")
    /\ UNCHANGED <<retry_count, error_message, stop_event, raw_recording_path,
                   processed_mp3_path, stream_recorder, starts, recorder, files,
                   proc_ok, stopped_in, capture_fault, cleanup_policy>>

\* the ffmpeg process of a recorder: "none" (not spawned), "starting"
\* (running, output not yet opened), "writing" (running, output opened),
\* "exit0" / "exitN" (ended with return code 0 / non-zero, not yet seen by
\* the monitor), "reaped" (ended, return code read by the monitor)
ProcRunning(r) == r.process \in {"starting", "writing"}

\* StreamRecorder._record_stream: status RECORDING, then Popen of ffmpeg
\* (an exception of Popen sets FAILED)
RecSpawn(s, k) ==
    /\ recorder[s][k].thread = "spawn"
    /\ \E popen_ok \in BOOLEAN :
        IF popen_ok
        THEN /\ SetRec(s, k, [recorder[s][k] EXCEPT !.status = "recording",
                                                    !.process = "starting",
                                                    !.thread = "monitor"])
             /\ UNCHANGED capture_fault
        ELSE /\ recorder' = Collected([recorder EXCEPT ![s][k].status = "failed",
                                                       ![s][k].thread = "done"],
                                      s, stream_recorder[s])
             /\ capture_fault' = [capture_fault EXCEPT ![s] = TRUE]
    /\ UNCHANGED <<current_stage, retry_count, error_message, stop_event,
                   raw_recording_path, processed_mp3_path, stream_recorder, starts,
                   wf, files, proc_ok, stopped_in, cleanup_policy>>

\* ffmpeg opens (creates or overwrites, -y) its output file
ProcOpenOutput(s, k) ==
    /\ recorder[s][k].process = "starting"
    /\ SetRec(s, k, [recorder[s][k] EXCEPT !.process = "writing"])
    /\ files' = files \cup {<<s, "raw", recorder[s][k].output_path>>}
    /\ UNCHANGED <<current_stage, retry_count, error_message, stop_event,
                   raw_recording_path, processed_mp3_path, stream_recorder, starts,
                   wf, proc_ok, stopped_in, capture_fault, cleanup_policy>>

\* exit codes ffmpeg can end with: 0 only after it has written its output
ExitCodes(r) == IF r.process = "writing" THEN {"exit0", "exitN"} ELSE {"exitN"}

\* ffmpeg ends by itself (-t reached, or an error)
ProcExit(s, k) ==
    /\ ProcRunning(recorder[s][k])
    /\ \E rc \in ExitCodes(recorder[s][k]) :
        /\ SetRec(s, k, [recorder[s][k] EXCEPT !.process = rc])
        /\ capture_fault' = [capture_fault EXCEPT ![s] = @ \/ rc = "exitN"]
    /\ UNCHANGED <<current_stage, retry_count, error_message, stop_event,
                   raw_recording_path, processed_mp3_path, stream_recorder, starts,
                   wf, files, proc_ok, stopped_in, cleanup_policy>>

\* StreamRecorder._monitor_recording: when the process has exited, or after
\* _terminate_process on a stop event or on the duration limit, the status
\* becomes COMPLETED on return code 0 and FAILED otherwise
RecMonitor(s, k) ==
    /\ recorder[s][k].thread = "monitor"
    /\ \E duration_reached \in BOOLEAN, rc \in ExitCodes(recorder[s][k]) :
        LET r == recorder[s][k]
            final == IF ProcRunning(r) THEN rc ELSE r.process
        IN /\ ProcRunning(r) => (r.stop_event \/ duration_reached)
           /\ recorder' = Collected(
                  [recorder EXCEPT ![s][k] =
                      [r EXCEPT !.process = "reaped",
                                !.status = IF final = "exit0" THEN "completed"
                                           ELSE "failed",
                                !.thread = "done"]],
                  s, stream_recorder[s])
    /\ UNCHANGED <<current_stage, retry_count, error_message, stop_event,
                   raw_recording_path, processed_mp3_path, stream_recorder, starts,
                   wf, files, proc_ok, stopped_in, capture_fault, cleanup_policy>>

\* RecordingSessionManager.stop_recording (the joins only delay the caller)
StopRecording(s) ==
    /\ current_stage[s] \notin TerminalStages \cup {"none"}
    /\ stop_event' = [stop_event EXCEPT ![s] = TRUE]
    /\ recorder' = IF stream_recorder[s] # 0
                   THEN RecorderStopped(s, stream_recorder[s]) ELSE recorder
    /\ stopped_in' = [stopped_in EXCEPT ![s] =
                        IF @ = "none" THEN current_stage[s] ELSE @]
    /\ UNCHANGED <<current_stage, retry_count, error_message, raw_recording_path,
                   processed_mp3_path, stream_recorder, starts, wf, files, proc_ok,
                   capture_fault, cleanup_policy>>

\* RecordingSessionManager.stop_recording up to the status test of
\* StreamRecorder.stop_recording: the test and the write of STOPPING that
\* follows it are two steps of the calling thread, no lock is held
StopRecordingTest(s) ==
    /\ current_stage[s] \notin TerminalStages \cup {"none"}
    /\ stop_event' = [stop_event EXCEPT ![s] = TRUE]
    /\ LET r == stream_recorder[s] IN
        recorder' = IF r # 0 /\ recorder[s][r].status \in {"connecting", "recording"}
                    THEN [recorder EXCEPT ![s][r].stop_caller = "tested"]
                    ELSE recorder
    /\ stopped_in' = [stopped_in EXCEPT ![s] =
                        IF @ = "none" THEN current_stage[s] ELSE @]
    /\ UNCHANGED <<current_stage, retry_count, error_message, raw_recording_path,
                   processed_mp3_path, stream_recorder, starts, wf, files, proc_ok,
                   capture_fault, cleanup_policy>>

\* StreamRecorder.stop_recording after the status test:
\* _update_status(STOPPING) and stop_event.set()
StopRecordingWrite(s) ==
    /\ \E k \in Slots :
        /\ recorder[s][k].stop_caller = "tested"
        /\ SetRec(s, k, [recorder[s][k] EXCEPT !.status = "stopping",
                                                !.stop_event = TRUE,
                                                !.stop_caller = "none"])
    /\ UNCHANGED <<current_stage, retry_count, error_message, stop_event,
                   raw_recording_path, processed_mp3_path, stream_recorder, starts,
                   wf, files, proc_ok, stopped_in, capture_fault, cleanup_policy>>

\* a limit check that lets one retry too many through
RetryLimitReachedLate(s) == retry_count[s] > DEFAULT_MAX_RETRIES

\* the first test of retry_workflow
RetryLimitReached(s) == retry_count[s] >= DEFAULT_MAX_RETRIES

\* RecordingSessionManager._cleanup_failed_attempt
CleanupFailedAttempt(s) ==
    files \ {<<s, "raw", raw_recording_path[s]>>, <<s, "mp3", processed_mp3_path[s]>>}

\* RecordingSessionManager.retry_workflow, refused
RetryWorkflowRefused(s) ==
    /\ current_stage[s] # "none"
    /\ RetryLimitReached(s) \/ current_stage[s] # "failed"
    /\ error_message' = [error_message EXCEPT ![s] =
                           IF RetryLimitReached(s) THEN "max_retries" ELSE "cannot_retry"]
    /\ UNCHANGED <<current_stage, retry_count, stop_event, raw_recording_path,
                   processed_mp3_path, stream_recorder, starts, wf, recorder,
                   files, proc_ok, stopped_in, capture_fault, cleanup_policy>>

\* RecordingSessionManager.retry_workflow, accepted: count, reset, cleanup of
\* the previous attempt, new paths, start_recording
RetryWorkflow(s) ==
    /\ ~RetryLimitReached(s)
    /\ current_stage[s] = "failed"
    /\ starts[s] < MaxStarts
    /\ retry_count' = [retry_count EXCEPT ![s] = @ + 1]
    /\ UpdateStatus(s, "initializing")
    /\ error_message' = [error_message EXCEPT ![s] = "none"]
    /\ stop_event' = [stop_event EXCEPT ![s] = FALSE]
    /\ files' = CleanupFailedAttempt(s)
    /\ raw_recording_path' = [raw_recording_path EXCEPT ![s] = retry_count[s] + 2]
    /\ processed_mp3_path' = [processed_mp3_path EXCEPT ![s] = retry_count[s] + 2]
    /\ starts' = [starts EXCEPT ![s] = @ + 1]
    /\ SetWf(s, starts[s] + 1, "run")
    /\ proc_ok' = [proc_ok EXCEPT ![s] = FALSE]
    /\ stopped_in' = [stopped_in EXCEPT ![s] = "none"]
    /\ capture_fault' = [capture_fault EXCEPT ![s] = FALSE]
    /\ UNCHANGED <<stream_recorder, recorder, cleanup_policy>>

(***************************************************************************)
(* SchedulerService: admission of the fires of the schedules               *)
(***************************************************************************)

\* SchedulerService.__init__: nothing tracked, no job run in progress
InitScheduler ==
    /\ job = [j \in Schedules |-> "idle"]
    /\ active_sessions = {}
    /\ session_db = [s \in Sessions |-> "none"]
    /\ fire_log = [j \in Schedules |-> "none"]

\* SchedulerService._can_start_recording
CanStartRecording ==
    Cardinality({s \in active_sessions : current_stage[s] \in ActiveStages})
        < MAX_CONCURRENT_RECORDINGS

\* job runs that hold a thread of ThreadPoolExecutor(max_workers)
RunningJobs == {j \in Schedules : job[j] = "admitted"}

\* SessionRepository.create: the id of the next RecordingSession record
NextSessionId == Cardinality({s \in Sessions : session_db[s] # "none"}) + 1

\* _execute_recording_job up to the admission check: at the limit the fire
\* is skipped (logged, nothing else); otherwise the run goes on
FireCheck(j) ==
    /\ job[j] = "idle"
    /\ Cardinality(RunningJobs) < MAX_CONCURRENT_RECORDINGS
    /\ NextSessionId + Cardinality(RunningJobs) <= MaxSessions
    /\ IF CanStartRecording
       THEN /\ job' = [job EXCEPT ![j] = "admitted"]
            /\ fire_log' = [fire_log EXCEPT ![j] = "admitted"]
       ELSE /\ fire_log' = [fire_log EXCEPT ![j] = "skipped"]
            /\ UNCHANGED job
    /\ UNCHANGED <<active_sessions, session_db, sessVars>>

\* _execute_recording_job after the check: the session record is created
\* and the start callback is called.  The callback is an input of the
\* scheduler: it either raises (as WorkflowCoordinator._start_recording_session
\* does at its call of set_completion_callback, which the manager does not
\* have), and the record is marked failed, or it returns a started
\* RecordingSessionManager, which is then tracked
FireCreate(j) ==
    /\ job[j] = "admitted"
    /\ job' = [job EXCEPT ![j] = "idle"]
    /\ LET s == NextSessionId IN
        \E raises \in BOOLEAN :
            IF raises
            THEN /\ session_db' = [session_db EXCEPT ![s] = "failed"]
                 /\ UNCHANGED <<active_sessions, current_stage, raw_recording_path,
                                processed_mp3_path, starts, wf>>
            ELSE /\ session_db' = [session_db EXCEPT ![s] = "scheduled"]
                 /\ active_sessions' = active_sessions \cup {s}
                 /\ UpdateStatus(s, "initializing")
                 /\ raw_recording_path' = [raw_recording_path EXCEPT ![s] = GeneratedPath(s)]
                 /\ processed_mp3_path' = [processed_mp3_path EXCEPT ![s] = GeneratedPath(s)]
                 /\ starts' = [starts EXCEPT ![s] = @ + 1]
                 /\ SetWf(s, starts[s] + 1, "run")
    /\ UNCHANGED <<fire_log, retry_count, error_message, stop_event, stream_recorder,
                   recorder, files, cleanup_policy, proc_ok, stopped_in, capture_fault>>

(***************************************************************************)
(* TransferQueue: durable store, ready queue and worker; SCPTransferService *)
(***************************************************************************)

NoRow == [status |-> "none"]

NoTransfer == [id |-> 0]

\* QueuedTransfer
Transfer(id, path, prio, rc, mx, at) ==
    [id |-> id, local_path |-> path, priority |-> prio, retry_count |-> rc,
     max_retries |-> mx, scheduled_at |-> at]

\* _save_transfer_to_db: INSERT OR REPLACE of the whole row
SaveTransferToDb(db, t, status) ==
    [db EXCEPT ![t.id] = [status |-> status, local_path |-> t.local_path,
                          priority |-> t.priority, retry_count |-> t.retry_count,
                          max_retries |-> t.max_retries, scheduled_at |-> t.scheduled_at]]

\* _update_transfer_status_in_db: UPDATE of status where the id matches
UpdateTransferStatusInDb(db, id, status) ==
    IF db[id].status = "none" THEN db ELSE [db EXCEPT ![id].status = status]

\* _remove_transfer_from_db
RemoveTransferFromDb(db, id) == [db EXCEPT ![id] = NoRow]

\* TransferQueue.__init__ on an empty store with room for the ids Ids; the
\* worker is started
InitTransferQueueOn(Ids) ==
    /\ tq_db = [id \in Ids |-> NoRow]
    /\ tq_queue = <<>>
    /\ worker = [pc |-> "get", cur |-> NoTransfer, attempt |-> 0, ok |-> FALSE]
    /\ now = 0
    /\ uploads = [id \in Ids |-> 0]
    /\ enqueued = [id \in Ids |-> 0]
    /\ exhausted = {}
    /\ manual = {}
    /\ uploaded = {}
    /\ tq_call = [op |-> "none", id |-> 0, ok |-> FALSE, seq |-> 0]

InitTransferQueue == InitTransferQueueOn(TransferIds)

\* the record of a call: seq alternates, so that every call is a visible step
Call(op, id, ok) == [op |-> op, id |-> id, ok |-> ok, seq |-> 1 - tq_call.seq]

\* the id of the next transfer: ids are taken to be fresh (calls for one
\* basename come in distinct milliseconds)
NextTransferId == Cardinality({id \in DOMAIN enqueued : enqueued[id] # 0}) + 1

\* a new entry that is eligible at once, whatever its delay
NewTransferAtOnce(id, f, prio, mx, delay) ==
    Transfer(id, f, prio, 0, IF mx = 0 THEN DEFAULT_MAX_RETRIES ELSE mx, now)

\* the entry built by add_transfer: no attempt yet, max_retries or the
\* default, eligible after the delay
NewTransfer(id, f, prio, mx, delay) ==
    Transfer(id, f, prio, 0, IF mx = 0 THEN DEFAULT_MAX_RETRIES ELSE mx, now + delay)

\* add_transfer of an existing file
AddTransfer(f, prio, mx, delay) ==
    /\ NextTransferId \in DOMAIN tq_db
    /\ f \in files
    /\ LET id == NextTransferId
           t == NewTransfer(id, f, prio, mx, delay)
       IN /\ tq_db' = SaveTransferToDb(tq_db, t, "queued")
          /\ tq_queue' = IF t.scheduled_at <= now THEN Append(tq_queue, t) ELSE tq_queue
          /\ enqueued' = [enqueued EXCEPT ![id] = t.max_retries]
          /\ tq_call' = Call("add", id, TRUE)
    /\ UNCHANGED <<worker, now, uploads, exhausted, manual, uploaded,
                   sessVars, schedVars, clientVars,
                   callbackVars, triggerVars>>

\* add_transfer of a path with no file: FileNotFoundError, nothing stored
AddTransferMissing(f) ==
    /\ f \notin files
    /\ tq_call' = Call("add", 0, FALSE)
    /\ UNCHANGED <<tq_db, tq_queue, worker, now, uploads, enqueued, exhausted, manual,
                   uploaded, sessVars, schedVars, clientVars,
                   callbackVars, triggerVars>>

\* a limit test that lets an entry at its max_retries through
MaxRetriesExceededStrict(r) == r.retry_count > r.max_retries

\* the limit test of retry_failed_transfer on the persisted record
MaxRetriesExceeded(r) == r.retry_count >= r.max_retries

\* retry_failed_transfer on a stored entry below its max_retries
RetryFailedTransfer(id, delay) ==
    /\ tq_db[id].status # "none"
    /\ ~MaxRetriesExceeded(tq_db[id])
    /\ Len(tq_queue) < MaxQueueLen
    /\ LET r == tq_db[id]
           t == Transfer(id, r.local_path, r.priority, r.retry_count + 1,
                         r.max_retries, now + delay)
       IN /\ tq_db' = SaveTransferToDb(tq_db, t, "queued")
          /\ tq_queue' = Append(tq_queue, t)
    /\ exhausted' = exhausted \ {id}
    /\ manual' = manual \cup {id}
    /\ tq_call' = Call("retry", id, TRUE)
    /\ UNCHANGED <<worker, now, uploads, enqueued, uploaded,
                   sessVars, schedVars, clientVars,
                   callbackVars, triggerVars>>

\* retry_failed_transfer returning False: no record with that id, or the
\* persisted retry_count is not below max_retries
RetryFailedTransferRefused(id) ==
    /\ IF tq_db[id].status = "none"
       THEN TRUE
       ELSE MaxRetriesExceeded(tq_db[id])
    /\ tq_call' = Call("retry", id, FALSE)
    /\ UNCHANGED <<tq_db, tq_queue, worker, now, uploads, enqueued, exhausted, manual,
                   uploaded, sessVars, schedVars, clientVars,
                   callbackVars, triggerVars>>

\* remove_transfer
RemoveTransfer(id) ==
    /\ tq_db[id].status # "none"
    /\ tq_db' = RemoveTransferFromDb(tq_db, id)
    /\ exhausted' = exhausted \ {id}
    /\ manual' = manual \cup {id}
    /\ tq_call' = Call("remove", id, TRUE)
    /\ UNCHANGED <<tq_queue, worker, now, uploads, enqueued, uploaded,
                   sessVars, schedVars, clientVars,
                   callbackVars, triggerVars>>

\* a test that takes every file to be there
LocalFileAssumed(f) == TRUE

\* os.path.exists(transfer.local_path)
LocalFileExists(f) == f \in files

\* an entry that stays at the head of the queue
PutBackFront(q) == q

\* an entry not yet eligible is put again: queue.Queue is first in, first out
PutBack(q) == Append(Tail(q), Head(q))

\* _worker_loop from the get to the call of transfer_file: an entry not yet
\* eligible goes back to the end of the queue, an entry whose file is gone
\* is marked failed, any other entry is marked processing and attempted
WorkerGet ==
    /\ worker.pc = "get"
    /\ tq_queue # <<>>
    /\ LET t == Head(tq_queue) IN
        IF t.scheduled_at > now
        THEN /\ tq_queue' = PutBack(tq_queue)
             /\ UNCHANGED <<tq_db, worker>>
        ELSE /\ tq_queue' = Tail(tq_queue)
             /\ IF ~LocalFileExists(t.local_path)
                THEN /\ tq_db' = UpdateTransferStatusInDb(tq_db, t.id, "failed")
                     /\ UNCHANGED worker
                ELSE /\ tq_db' = UpdateTransferStatusInDb(tq_db, t.id, "processing")
                     /\ worker' = [pc |-> "upload", cur |-> t, attempt |-> 0, ok |-> FALSE]
    /\ UNCHANGED <<tq_call, now, uploads, enqueued, exhausted, manual, uploaded,
                   sessVars, schedVars, clientVars,
                   callbackVars, triggerVars>>

\* uploads made by one call of transfer_file: range(max_retries + 1)
UploadsPerCall == DEFAULT_MAX_RETRIES + 1

\* SCPTransferService.transfer_file, one pass of its loop per step: a file
\* missing at the call gives a failed result, a file that goes missing later
\* makes getsize raise into the worker; a successful upload removes the
\* local file when the cleanup policy is on and ends the loop
WorkerUpload ==
    /\ worker.pc = "upload"
    /\ LET t == worker.cur IN
        IF t.local_path \notin files
        THEN /\ worker' = IF worker.attempt = 0
                          THEN [worker EXCEPT !.pc = "result", !.ok = FALSE]
                          ELSE [pc |-> "get", cur |-> NoTransfer, attempt |-> 0, ok |-> FALSE]
             /\ UNCHANGED <<uploads, files>>
        ELSE /\ uploads' = [uploads EXCEPT ![t.id] = IF @ < MaxUploads THEN @ + 1 ELSE @]
             /\ \E success \in BOOLEAN :
                    IF success
                    THEN /\ worker' = [worker EXCEPT !.pc = "result", !.ok = TRUE]
                         /\ files' = IF cleanup_policy THEN files \ {t.local_path} ELSE files
                    ELSE /\ worker' = IF worker.attempt + 1 < UploadsPerCall
                                      THEN [worker EXCEPT !.attempt = @ + 1]
                                      ELSE [worker EXCEPT !.pc = "result", !.ok = FALSE]
                         /\ UNCHANGED files
    /\ UNCHANGED <<tq_call, tq_db, tq_queue, now, enqueued, exhausted, manual, uploaded,
                   schedVars, current_stage, retry_count, error_message, stop_event,
                   raw_recording_path, processed_mp3_path, stream_recorder, starts, wf,
                   recorder, cleanup_policy, proc_ok, stopped_in, capture_fault,
                   clientVars, callbackVars, triggerVars>>

\* a backoff that starts at twice the base
RetryDelayFromTwo(rc) == RETRY_DELAY_SECONDS * 2 ^ rc

\* delay before the next attempt: RETRY_DELAY_SECONDS * 2 ** (retry_count - 1)
RetryDelay(rc) == RETRY_DELAY_SECONDS * 2 ^ (rc - 1)

\* the store after a failed attempt that leaves no retry
MarkPermanentlyFailed(db, id) == UpdateTransferStatusInDb(db, id, "failed")

\* _worker_loop after transfer_file has returned
WorkerResult ==
    /\ worker.pc = "result"
    /\ worker' = [pc |-> "get", cur |-> NoTransfer, attempt |-> 0, ok |-> FALSE]
    /\ LET t == worker.cur IN
        IF worker.ok
        THEN /\ tq_db' = RemoveTransferFromDb(
                             UpdateTransferStatusInDb(tq_db, t.id, "completed"), t.id)
             /\ uploaded' = uploaded \cup {t.id}
             /\ exhausted' = exhausted \ {t.id}
             /\ UNCHANGED tq_queue
        ELSE LET rc == t.retry_count + 1 IN
             IF rc < t.max_retries
             THEN LET t2 == [t EXCEPT !.retry_count = rc,
                                      !.scheduled_at = now + RetryDelay(rc)]
                  IN /\ tq_db' = SaveTransferToDb(tq_db, t2, "queued")
                     /\ tq_queue' = Append(tq_queue, t2)
                     /\ UNCHANGED <<uploaded, exhausted>>
             ELSE /\ tq_db' = MarkPermanentlyFailed(tq_db, t.id)
                  /\ exhausted' = IF tq_db[t.id].status = "none" THEN exhausted
                                  ELSE exhausted \cup {t.id}
                  /\ UNCHANGED <<tq_queue, uploaded>>
    /\ UNCHANGED <<tq_call, now, uploads, enqueued, manual, sessVars, schedVars, clientVars,
                   callbackVars, triggerVars>>

\* time passes, up to a limit
TickUpTo(limit) ==
    /\ now < limit
    /\ now' = now + 1
    /\ UNCHANGED <<tq_call, tq_db, tq_queue, worker, uploads, enqueued, exhausted, manual,
                   uploaded, sessVars, schedVars, clientVars,
                   callbackVars, triggerVars>>

Tick == TickUpTo(MaxTime)

\* statuses selected by get_pending_transfers
PendingStatuses == {"queued", "processing", "failed"}

\* ORDER BY priority DESC, scheduled_at ASC
PendingBefore(a, b) ==
    \/ tq_db[a].priority > tq_db[b].priority
    \/ tq_db[a].priority = tq_db[b].priority /\ tq_db[a].scheduled_at < tq_db[b].scheduled_at

RECURSIVE PendingOrder(_)
PendingOrder(S) ==
    IF S = {} THEN <<>>
    ELSE LET x == CHOOSE x \in S : \A y \in S : ~PendingBefore(y, x)
         IN <<x>> \o PendingOrder(S \ {x})

\* get_pending_transfers(limit): ids of the rows returned
GetPendingTransfers(limit) ==
    LET all == PendingOrder({id \in TransferIds : tq_db[id].status \in PendingStatuses})
    IN SubSeq(all, 1, IF Len(all) < limit THEN Len(all) ELSE limit)

\* a store that comes up empty
InitDatabaseFresh(db) == [id \in DOMAIN db |-> NoRow]

\* _init_database: CREATE TABLE IF NOT EXISTS leaves an existing table as it is
InitDatabase(db) == db

\* _load_queue_from_db: the rows with status queued whose scheduled_at has
\* come, ORDER BY priority DESC, scheduled_at ASC, as QueuedTransfer objects
LoadQueueFromDb ==
    LET ids == PendingOrder({id \in DOMAIN tq_db :
                    IF tq_db[id].status = "queued"
                    THEN tq_db[id].scheduled_at <= now ELSE FALSE})
    IN [i \in 1..Len(ids) |->
           Transfer(ids[i], tq_db[ids[i]].local_path, tq_db[ids[i]].priority,
                    tq_db[ids[i]].retry_count, tq_db[ids[i]].max_retries,
                    tq_db[ids[i]].scheduled_at)]

\* the process ends (what the worker held in memory is lost) and a new
\* TransferQueue is built on the same store: __init__, then start_worker
Restart ==
    /\ tq_db' = InitDatabase(tq_db)
    /\ tq_queue' = LoadQueueFromDb
    /\ worker' = [pc |-> "get", cur |-> NoTransfer, attempt |-> 0, ok |-> FALSE]
    /\ tq_call' = Call("restart", 0, TRUE)
    /\ UNCHANGED <<now, uploads, enqueued, exhausted, manual, uploaded,
                   sessVars, schedVars, clientVars,
                   callbackVars, triggerVars>>

DefaultPendingLimit == 50

(***************************************************************************)
(* SCPTransferService: one call of transfer_file                           *)
(***************************************************************************)

\* no call in progress
NoCall ==
    [pc |-> "idle", local_path |-> <<>>, key |-> "absent", password |-> FALSE,
     attempt |-> 0, sent |-> 0, progress |-> 0, connects |-> 0, auth |-> "none",
     result |-> "none", error |-> "none"]

\* SCPTransferService.__init__
InitClient == scp = NoCall

\* states of the private key file of the configuration: no path or no file,
\* a file that no key type can load, a file that loads
KeyStates == {"absent", "unloadable", "loadable"}

\* _create_ssh_client up to client.connect: the credential put in
\* auth_kwargs, or the AuthenticationException raised before the connect
CreateSshClient(key, password) ==
    IF key # "absent"
    THEN IF key = "loadable"
         THEN [raises |-> FALSE, auth |-> "pkey"]
         ELSE IF password
              THEN [raises |-> FALSE, auth |-> "password"]
              ELSE [raises |-> FALSE, auth |-> "none"]
    ELSE IF password
         THEN [raises |-> FALSE, auth |-> "password"]
         ELSE [raises |-> TRUE, auth |-> "none"]

\* a cleanup that does not look at the configuration
CleanupAlways == TRUE

\* scp_config.cleanup_after_transfer
CleanupAfterTransfer == cleanup_policy

\* transfer_file up to its retry loop: a missing local file and a destination
\* that does not parse give a failed result at once
TransferFile(f, dest_ok, key, password) ==
    /\ scp.pc = "idle"
    /\ scp' = IF f \notin files
              THEN [NoCall EXCEPT !.pc = "returned", !.local_path = f,
                                  !.result = "failed", !.error = "local_file_not_found"]
              ELSE IF ~dest_ok
              THEN [NoCall EXCEPT !.pc = "returned", !.local_path = f,
                                  !.result = "failed", !.error = "invalid_destination"]
              ELSE [NoCall EXCEPT !.pc = "attempt", !.local_path = f,
                                  !.key = key, !.password = password]
    /\ UNCHANGED <<sessVars, schedVars, queueVars, callbackVars, triggerVars>>

\* the end of a failed pass of the retry loop: the next pass, or the return
\* of the last result after range(max_retries + 1) passes
AttemptFailed(err) ==
    IF scp.attempt + 1 < DEFAULT_MAX_RETRIES + 1
    THEN [scp EXCEPT !.pc = "attempt", !.attempt = @ + 1, !.sent = 0, !.error = err]
    ELSE [scp EXCEPT !.pc = "returned", !.result = "failed", !.error = err]

\* _transfer_file_with_progress up to open_sftp: getsize of the local file
\* (outside the try: it raises out of transfer_file), _create_ssh_client,
\* client.connect and what the remote host answers
ClientConnect ==
    /\ scp.pc = "attempt"
    /\ IF scp.local_path \notin files
       THEN scp' = [scp EXCEPT !.pc = "returned", !.result = "raised",
                               !.error = "getsize"]
       ELSE LET c == CreateSshClient(scp.key, scp.password) IN
            IF c.raises
            THEN scp' = AttemptFailed("authentication")
            ELSE \E answer \in {"connected", "authentication", "no_connection", "ssh_error"} :
                    scp' = [(IF answer = "connected"
                             THEN [scp EXCEPT !.pc = "put", !.sent = 0]
                             ELSE AttemptFailed(answer))
                            EXCEPT !.connects = scp.connects + 1, !.auth = c.auth]
    /\ UNCHANGED <<sessVars, schedVars, queueVars, callbackVars, triggerVars>>

\* sftp.put: each chunk written calls the progress callback with the bytes
\* sent so far; an error (protocol, timeout, unexpected) ends the pass; after
\* the last chunk the pass has succeeded and the local file is removed if
\* the configuration asks for it
ClientPut ==
    /\ scp.pc = "put"
    /\ \E event \in {"chunk", "ssh_error", "unexpected"} :
        IF event = "chunk"
        THEN IF scp.sent < MaxChunks
             THEN /\ scp' = [scp EXCEPT !.sent = @ + 1, !.progress = scp.sent + 1]
                  /\ UNCHANGED files
             ELSE /\ scp' = [scp EXCEPT !.pc = "returned", !.result = "success",
                                        !.error = "none"]
                  /\ files' = IF CleanupAfterTransfer THEN files \ {scp.local_path}
                              ELSE files
        ELSE /\ scp' = AttemptFailed(event)
             /\ UNCHANGED files
    /\ UNCHANGED <<schedVars, queueVars, callbackVars, triggerVars, current_stage, retry_count,
                   error_message, stop_event, raw_recording_path, processed_mp3_path,
                   stream_recorder, starts, wf, recorder, cleanup_policy, proc_ok,
                   stopped_in, capture_fault>>

\* the caller has the result; the service is ready for the next call
ClientReturn ==
    /\ scp.pc = "returned"
    /\ scp' = NoCall
    /\ UNCHANGED <<sessVars, schedVars, queueVars, callbackVars, triggerVars>>

(***************************************************************************)
(* RecordingSessionManager: the stage-change and progress callbacks        *)
(***************************************************************************)

\* what a registered callback does when it is called: it returns, it raises
\* an exception, it calls get_session_info of the session, it blocks;
\* "none": no callback registered
CallbackKinds == {"none", "returns", "raises", "reads_info", "blocks"}

StatusCall(stage) == [kind |-> "status", stage |-> stage, progress |-> 0]

ProgressCall(p) == [kind |-> "progress", stage |-> "none", progress |-> p]

\* _run_workflow and its stages as the sequence of their calls of
\* _update_status and _update_progress: every stage succeeds; the capture
\* fails; the processing fails; a stop request is seen after the capture
WorkflowPlans ==
    { <<StatusCall("recording"), ProgressCall(0), ProgressCall(100),
        StatusCall("processing"), ProgressCall(0), ProgressCall(25), ProgressCall(100),
        StatusCall("transferring"), ProgressCall(0), ProgressCall(100),
        StatusCall("completed")>>,
      <<StatusCall("recording"), ProgressCall(0), StatusCall("failed")>>,
      <<StatusCall("recording"), ProgressCall(0), ProgressCall(100),
        StatusCall("processing"), ProgressCall(0), ProgressCall(25),
        StatusCall("failed")>>,
      <<StatusCall("recording"), ProgressCall(0), ProgressCall(100),
        StatusCall("cancelled")>> }

\* the stages among the calls of a plan, in order
RECURSIVE StagesOf(_)
StagesOf(calls) ==
    IF calls = <<>> THEN <<>>
    ELSE IF Head(calls).kind = "status"
         THEN <<Head(calls).stage>> \o StagesOf(Tail(calls))
         ELSE StagesOf(Tail(calls))

\* a manager without callbacks and without a workflow
InitCallbacks ==
    /\ status_callback = "none"
    /\ progress_callback = "none"
    /\ lock = "free"
    /\ cb_pc = "ready"
    /\ plan = <<>>
    /\ next_call = 1
    /\ stages_written = <<>>

\* an exception of a callback that leaves _update_status / _update_progress
ExceptionEscapes == FALSE

\* try: callback(...) except Exception: log
ExceptionCaught == TRUE

\* the session fields a notification leaves alone
managerRest ==
    <<retry_count, error_message, stop_event, raw_recording_path, processed_mp3_path,
      stream_recorder, starts, wf, recorder, files, cleanup_policy, proc_ok,
      stopped_in, capture_fault>>

\* the notification is over: the workflow thread goes on to its next call,
\* or ends after the last one
CallReturns ==
    /\ next_call' = next_call + 1
    /\ cb_pc' = IF next_call = Len(plan) THEN "finished" ELSE "ready"

\* _update_status: with self._lock, the write of current_stage, then the
\* call of the status callback with the lock held
UpdateStatusCall ==
    /\ cb_pc = "ready"
    /\ next_call <= Len(plan)
    /\ plan[next_call].kind = "status"
    /\ lock = "free"
    /\ UpdateStatus(1, plan[next_call].stage)
    /\ stages_written' = Append(stages_written, plan[next_call].stage)
    /\ IF status_callback = "none"
       THEN CallReturns /\ UNCHANGED lock
       ELSE /\ lock' = "workflow"
            /\ cb_pc' = "status_callback"
            /\ UNCHANGED next_call
    /\ UNCHANGED <<managerRest, schedVars, queueVars, clientVars, triggerVars,
                   status_callback, progress_callback, plan>>

\* the status callback runs in the workflow thread, inside the with block;
\* when it returns, or its exception has been caught, the lock is released
StatusCallbackRuns ==
    /\ cb_pc = "status_callback"
    /\ CASE status_callback = "returns" -> CallReturns /\ lock' = "free"
         [] status_callback = "raises" ->
              /\ lock' = "free"
              /\ IF ExceptionCaught THEN CallReturns
                 ELSE cb_pc' = "died" /\ UNCHANGED next_call
         [] status_callback = "reads_info" ->
              cb_pc' = "status_reads" /\ UNCHANGED <<lock, next_call>>
         [] status_callback = "blocks" ->
              cb_pc' = "blocked" /\ UNCHANGED <<lock, next_call>>
    /\ UNCHANGED <<sessVars, schedVars, queueVars, clientVars, triggerVars,
                   status_callback, progress_callback, plan, stages_written>>

\* _update_progress: the call of the progress callback, no lock taken
UpdateProgressCall ==
    /\ cb_pc = "ready"
    /\ next_call <= Len(plan)
    /\ plan[next_call].kind = "progress"
    /\ IF progress_callback = "none"
       THEN CallReturns
       ELSE cb_pc' = "progress_callback" /\ UNCHANGED next_call
    /\ UNCHANGED <<sessVars, schedVars, queueVars, clientVars, triggerVars,
                   status_callback, progress_callback, lock, plan, stages_written>>

\* the progress callback runs in the workflow thread
ProgressCallbackRuns ==
    /\ cb_pc = "progress_callback"
    /\ CASE progress_callback = "returns" -> CallReturns
         [] progress_callback = "raises" ->
              IF ExceptionCaught THEN CallReturns
              ELSE cb_pc' = "died" /\ UNCHANGED next_call
         [] progress_callback = "reads_info" ->
              cb_pc' = "progress_reads" /\ UNCHANGED next_call
         [] progress_callback = "blocks" ->
              cb_pc' = "blocked" /\ UNCHANGED next_call
    /\ UNCHANGED <<sessVars, schedVars, queueVars, clientVars, triggerVars,
                   status_callback, progress_callback, lock, plan, stages_written>>

\* get_session_info called by a callback in the workflow thread: it takes
\* self._lock, a threading.Lock, which has to be free, also when the caller
\* is the thread that holds it
CallbackGetSessionInfo ==
    /\ cb_pc \in {"status_reads", "progress_reads"}
    /\ lock = "free"
    /\ lock' = "callback"
    /\ cb_pc' = "reading"
    /\ UNCHANGED <<sessVars, schedVars, queueVars, clientVars, triggerVars,
                   status_callback, progress_callback, plan, next_call, stages_written>>

\* the end of that get_session_info and of the callback
CallbackGotSessionInfo ==
    /\ cb_pc = "reading"
    /\ lock' = "free"
    /\ CallReturns
    /\ UNCHANGED <<sessVars, schedVars, queueVars, clientVars, triggerVars,
                   status_callback, progress_callback, plan, stages_written>>

\* get_session_info called by another thread (the API, the scheduler)
GetSessionInfo ==
    /\ lock = "free"
    /\ lock' = "reader"
    /\ UNCHANGED <<sessVars, schedVars, queueVars, clientVars, triggerVars,
                   status_callback, progress_callback, cb_pc, plan, next_call, stages_written>>

GotSessionInfo ==
    /\ lock = "reader"
    /\ lock' = "free"
    /\ UNCHANGED <<sessVars, schedVars, queueVars, clientVars, triggerVars,
                   status_callback, progress_callback, cb_pc, plan, next_call, stages_written>>

(***************************************************************************)
(* SchedulerService and JobManager: cron expressions, triggers, jobs       *)
(***************************************************************************)

\* A cron expression is the sequence of its fields and a field is the set
\* of the numbers it lists ("*" lists every number of its range).

\* the values croniter accepts in the five fields (7 is a Sunday too)
CroniterRanges == <<0..59, 0..23, 1..31, 1..12, 0..7>>

\* the values CronTrigger accepts in minute, hour, day, month, day_of_week
CronTriggerRanges == <<0..59, 0..23, 1..31, 1..12, 0..6>>

\* croniter(expr): five fields, or six with seconds, every value in range
Croniter(expr) ==
    /\ Len(expr) \in {5, 6}
    /\ \A i \in 1..5 : expr[i] \subseteq CroniterRanges[i]
    /\ Len(expr) = 6 => expr[6] \subseteq 0..59

\* CronTrigger.from_crontab(expr): five fields, every value in range
CronTriggerFromCrontab(expr) ==
    /\ Len(expr) = 5
    /\ \A i \in 1..5 : expr[i] \subseteq CronTriggerRanges[i]

\* a validation that only counts the fields
ValidateFieldCount(expr) == Len(expr) = 5

\* SchedulerService.validate_cron_expression
ValidateCronExpression(expr) ==
    /\ expr # <<>>
    /\ Len(expr) = 5
    /\ Croniter(expr)
    /\ CronTriggerFromCrontab(expr)

\* "* * * * *" and "*/2 * * * *"
EveryMinute == <<0..59, 0..23, 1..31, 1..12, 0..6>>

EvenMinutes == [EveryMinute EXCEPT ![1] = {m \in 0..59 : m % 2 = 0}]

\* expressions with the extreme values of every field, with a value just
\* outside each range, and with a field missing or added
CronSamples ==
    { EveryMinute, EvenMinutes,
      <<{0}, {0}, {1}, {1}, {0}>>, <<{59}, {23}, {31}, {12}, {6}>>,
      [EveryMinute EXCEPT ![1] = {60}], [EveryMinute EXCEPT ![2] = {24}],
      [EveryMinute EXCEPT ![3] = {0}], [EveryMinute EXCEPT ![3] = {32}],
      [EveryMinute EXCEPT ![4] = {0}], [EveryMinute EXCEPT ![4] = {13}],
      [EveryMinute EXCEPT ![5] = {7}],
      <<>>, SubSeq(EveryMinute, 1, 4), Append(EveryMinute, {0}) }

\* malformed expressions passed to the operations: a minute out of range,
\* a weekday out of range, a field missing
MalformedInputs ==
    {[EveryMinute EXCEPT ![1] = {60}], [EveryMinute EXCEPT ![5] = {7}],
     SubSeq(EveryMinute, 1, 4)}

\* the expressions passed to the operations: every minute, every second
\* minute, and the malformed ones
CronInputs == {EveryMinute, EvenMinutes} \cup MalformedInputs

\* The clock counts minutes from a midnight on the first of January that is
\* a Sunday, in a calendar of 31-day months.
CronMatches(expr, t) ==
    /\ (t % 60) \in expr[1]
    /\ ((t \div 60) % 24) \in expr[2]
    /\ (((t \div 1440) % 31) + 1) \in expr[3]
    /\ (((t \div 44640) % 12) + 1) \in expr[4]
    /\ ((t \div 1440) % 7) \in expr[5]

\* croniter(expr, base).get_next: the first matching minute after base; a
\* match beyond the search bound is given as the minute after the bound
GetNext(expr, base) ==
    LET hits == {t \in (base + 1)..(base + CronSearchMinutes) : CronMatches(expr, t)}
    IN IF hits = {} THEN base + CronSearchMinutes + 1
       ELSE CHOOSE t \in hits : \A u \in hits : t <= u

NoTime == 0 - 1

NoSchedule ==
    [stored |-> FALSE, cron_expression |-> <<>>, is_active |-> FALSE,
     next_run_time |-> NoTime, last_run_time |-> NoTime]

\* RecordingSchedule with update_next_run_time applied at time t
NewSchedule(expr, active, t) ==
    [stored |-> TRUE, cron_expression |-> expr, is_active |-> active,
     next_run_time |-> GetNext(expr, t), last_run_time |-> NoTime]

NoCallYet == [op |-> "none", ok |-> FALSE, in_range |-> TRUE]

\* the record of a call with the expression it was given
SchedCall(op, ok, expr) ==
    [op |-> op, ok |-> ok,
     in_range |-> /\ Len(expr) = 5
                  /\ \A i \in 1..5 : expr[i] \subseteq CronTriggerRanges[i]]

\* SchedulerService.__init__ on an empty store: the scheduler is set up and
\* not running
InitTriggers ==
    /\ schedule_db = [j \in Schedules |-> NoSchedule]
    /\ aps_running = FALSE
    /\ aps_jobs = [j \in Schedules |-> <<>>]
    /\ session_schedule = [s \in Sessions |-> 0]
    /\ sched_call = NoCallYet
    /\ evaluated_at = [j \in Schedules |-> NoTime]

\* BackgroundScheduler.add_job(id = job_id, replace_existing = True)
AddJob(jobs, id, expr, t) ==
    [jobs EXCEPT ![id] = <<[cron |-> expr, next_fire |-> GetNext(expr, t)]>>]

\* BackgroundScheduler.remove_job inside the try of _remove_recording_job:
\* a stopped scheduler looks the id up among its pending jobs only, and the
\* JobLookupError is swallowed
RemoveJob(jobs, running, id) ==
    IF running THEN [jobs EXCEPT ![id] = <<>>] ELSE jobs

\* SchedulerService._schedule_recording_job
ScheduleRecordingJob(jobs, running, id, expr, t) ==
    IF ~running \/ ~CronTriggerFromCrontab(expr)
    THEN [ok |-> FALSE, jobs |-> jobs]
    ELSE [ok |-> TRUE, jobs |-> AddJob(jobs, id, expr, t)]

\* SchedulerService._remove_recording_job
RemoveRecordingJob(jobs, running, id) == RemoveJob(jobs, running, id)

\* SchedulerService.add_schedule
AddSchedule(jobs, running, id, expr, active, t) ==
    IF ~ValidateCronExpression(expr) THEN [ok |-> FALSE, jobs |-> jobs]
    ELSE IF active THEN ScheduleRecordingJob(jobs, running, id, expr, t)
    ELSE [ok |-> TRUE, jobs |-> jobs]

\* SchedulerService.update_schedule
UpdateSchedule(jobs, running, id, expr, active, t) ==
    IF ~ValidateCronExpression(expr) THEN [ok |-> FALSE, jobs |-> jobs]
    ELSE LET removed == RemoveRecordingJob(jobs, running, id) IN
         IF active THEN ScheduleRecordingJob(removed, running, id, expr, t)
         ELSE [ok |-> TRUE, jobs |-> removed]

\* SchedulerService._load_existing_schedules: every active stored schedule
\* is scheduled
LoadExistingSchedules(jobs, t) ==
    [j \in Schedules |->
        IF schedule_db[j].stored /\ schedule_db[j].is_active
        THEN ScheduleRecordingJob(jobs, TRUE, j, schedule_db[j].cron_expression, t).jobs[j]
        ELSE jobs[j]]

\* SchedulerService.start
SchedulerStart ==
    /\ ~aps_running
    /\ aps_running' = TRUE
    /\ aps_jobs' = LoadExistingSchedules(aps_jobs, now)
    /\ sched_call' = SchedCall("start", TRUE, EveryMinute)
    /\ UNCHANGED <<schedule_db, session_schedule, evaluated_at, sessVars, schedVars,
                   queueVars, clientVars, callbackVars>>

\* the sessions _stop_all_active_sessions calls stop_recording on with effect
StopAccepted == {s \in active_sessions : current_stage[s] \notin TerminalStages}

\* StreamRecorder.stop_recording with its join on recorder r: STOPPING and
\* the stop event; a recording thread that is alive sees the event at its
\* next poll, terminates ffmpeg (SIGTERM, after 5 s SIGKILL) and sets the
\* final status well within the 10 s of the join
RecorderJoined(r, rc) ==
    IF r.status \notin {"connecting", "recording"} THEN r
    ELSE IF r.thread \notin {"spawn", "monitor"}
    THEN [r EXCEPT !.status = "stopping", !.stop_event = TRUE]
    ELSE LET final == IF r.process = "writing" THEN rc
                      ELSE IF r.process = "exit0" THEN "exit0" ELSE "exitN"
         IN [r EXCEPT !.status = IF final = "exit0" THEN "completed" ELSE "failed",
                      !.stop_event = TRUE,
                      !.process = "reaped",
                      !.thread = "done"]

\* SchedulerService.stop: _stop_all_active_sessions, then shutdown; the jobs
\* stay in the persistent job store.  stop_recording of each tracked manager
\* has returned: its join of the recording thread has ended, its join of
\* the workflow thread has ended or has timed out
SchedulerStop ==
    /\ aps_running
    /\ aps_running' = FALSE
    /\ stop_event' = [s \in Sessions |-> stop_event[s] \/ s \in StopAccepted]
    /\ \E rc \in {"exit0", "exitN"} :
         recorder' = [s \in Sessions |->
                         IF s \in StopAccepted /\ stream_recorder[s] # 0
                         THEN [recorder[s] EXCEPT ![stream_recorder[s]] =
                                                      RecorderJoined(@, rc)]
                         ELSE recorder[s]]
    /\ stopped_in' = [s \in Sessions |->
                         IF s \in StopAccepted /\ stopped_in[s] = "none"
                         THEN current_stage[s] ELSE stopped_in[s]]
    /\ active_sessions' = {}
    /\ sched_call' = SchedCall("stop", TRUE, EveryMinute)
    /\ UNCHANGED <<schedule_db, aps_jobs, session_schedule, evaluated_at, job,
                   session_db, fire_log, current_stage, retry_count, error_message,
                   raw_recording_path, processed_mp3_path, stream_recorder, starts,
                   wf, files, cleanup_policy, proc_ok, capture_fault, queueVars,
                   clientVars, callbackVars>>

\* ScheduleRepository.create: the id of the new row
NextScheduleId ==
    LET ids == {j \in Schedules : schedule_db[j].stored}
    IN IF ids = {} THEN 1 ELSE (CHOOSE j \in ids : \A i \in ids : i <= j) + 1

\* JobManager.create_job
CreateJob(expr, active) ==
    /\ IF ~ValidateCronExpression(expr)
       THEN /\ sched_call' = SchedCall("create_job", FALSE, expr)
            /\ UNCHANGED <<schedule_db, aps_jobs>>
       ELSE LET id == NextScheduleId
                r == AddSchedule(aps_jobs, aps_running, id, expr, active, now)
            IN /\ id \in Schedules
               /\ schedule_db' = [schedule_db EXCEPT ![id] =
                                     NewSchedule(expr, active /\ r.ok, now)]
               /\ aps_jobs' = r.jobs
               /\ sched_call' = SchedCall("create_job", TRUE, expr)
    /\ UNCHANGED <<aps_running, session_schedule, evaluated_at, sessVars, schedVars,
                   queueVars, clientVars, callbackVars>>

\* JobManager.update_job with a new cron expression and a new active flag
UpdateJob(id, expr, active) ==
    /\ schedule_db[id].stored
    /\ IF ~ValidateCronExpression(expr)
       THEN /\ sched_call' = SchedCall("update_job", FALSE, expr)
            /\ UNCHANGED <<schedule_db, aps_jobs>>
       ELSE LET old == schedule_db[id]
                touched == old.is_active \/ active
                r == IF touched
                     THEN UpdateSchedule(aps_jobs, aps_running, id, expr, active, now)
                     ELSE [ok |-> TRUE, jobs |-> aps_jobs]
            IN /\ schedule_db' = [schedule_db EXCEPT ![id] =
                                     [old EXCEPT !.cron_expression = expr,
                                                 !.is_active = active /\ r.ok,
                                                 !.next_run_time = GetNext(expr, now)]]
               /\ aps_jobs' = r.jobs
               /\ sched_call' = SchedCall("update_job", TRUE, expr)
    /\ UNCHANGED <<aps_running, session_schedule, evaluated_at, sessVars, schedVars,
                   queueVars, clientVars, callbackVars>>

\* JobManager.activate_job
ActivateJob(id) ==
    /\ schedule_db[id].stored
    /\ ~schedule_db[id].is_active
    /\ LET expr == schedule_db[id].cron_expression
           r == AddSchedule(aps_jobs, aps_running, id, expr, TRUE, now)
       IN /\ schedule_db' = [schedule_db EXCEPT ![id].is_active = r.ok,
                                                ![id].next_run_time = GetNext(expr, now)]
          /\ aps_jobs' = r.jobs
          /\ sched_call' = SchedCall("activate_job", r.ok, expr)
    /\ UNCHANGED <<aps_running, session_schedule, evaluated_at, sessVars, schedVars,
                   queueVars, clientVars, callbackVars>>

\* JobManager.deactivate_job
DeactivateJob(id) ==
    /\ schedule_db[id].stored
    /\ schedule_db[id].is_active
    /\ aps_jobs' = RemoveRecordingJob(aps_jobs, aps_running, id)
    /\ schedule_db' = [schedule_db EXCEPT ![id].is_active = FALSE]
    /\ sched_call' = SchedCall("deactivate_job", TRUE, schedule_db[id].cron_expression)
    /\ UNCHANGED <<aps_running, session_schedule, evaluated_at, sessVars, schedVars,
                   queueVars, clientVars, callbackVars>>

\* the session records that refer to schedule id
ReferringSessions(id) == {s \in Sessions : session_schedule[s] = id}

\* JobManager.delete_job: remove_schedule, then ScheduleRepository.delete,
\* which raises when session records refer to the schedule
DeleteJob(id) ==
    /\ schedule_db[id].stored
    /\ aps_jobs' = RemoveRecordingJob(aps_jobs, aps_running, id)
    /\ IF ReferringSessions(id) # {}
       THEN /\ UNCHANGED schedule_db
            /\ sched_call' = SchedCall("delete_job", FALSE, schedule_db[id].cron_expression)
       ELSE /\ schedule_db' = [schedule_db EXCEPT ![id] = NoSchedule]
            /\ sched_call' = SchedCall("delete_job", TRUE, schedule_db[id].cron_expression)
    /\ UNCHANGED <<aps_running, session_schedule, evaluated_at, sessVars, schedVars,
                   queueVars, clientVars, callbackVars>>

\* SchedulerService.add_schedule called with a stored schedule whose cron
\* expression the caller has set
AddScheduleCall(id, expr) ==
    /\ schedule_db[id].stored
    /\ LET r == AddSchedule(aps_jobs, aps_running, id, expr, schedule_db[id].is_active, now)
       IN /\ aps_jobs' = r.jobs
          /\ sched_call' = SchedCall("add_schedule", r.ok, expr)
    /\ UNCHANGED <<schedule_db, aps_running, session_schedule, evaluated_at, sessVars,
                   schedVars, queueVars, clientVars, callbackVars>>

\* SchedulerService.update_schedule called the same way
UpdateScheduleCall(id, expr) ==
    /\ schedule_db[id].stored
    /\ LET r == UpdateSchedule(aps_jobs, aps_running, id, expr,
                               schedule_db[id].is_active, now)
       IN /\ aps_jobs' = r.jobs
          /\ sched_call' = SchedCall("update_schedule", r.ok, expr)
    /\ UNCHANGED <<schedule_db, aps_running, session_schedule, evaluated_at, sessVars,
                   schedVars, queueVars, clientVars, callbackVars>>

\* a job of the running scheduler is due
JobDue(j) ==
    /\ aps_running
    /\ aps_jobs[j] # <<>>
    /\ Head(aps_jobs[j]).next_fire <= now

\* the scheduler computes the next fire of the jobs it runs
JobsAfterRun(j) ==
    LET js == aps_jobs[j] IN
    [aps_jobs EXCEPT ![j] =
        [i \in 1..Len(js) |-> [cron |-> js[i].cron,
                               next_fire |-> GetNext(js[i].cron, now)]]]

\* SchedulerService._execute_recording_job, run by the scheduler at a fire:
\* the fire is skipped when the schedule is gone or inactive or the limit is
\* reached; otherwise the session record is created, last_run_time and
\* next_run_time are stored, and the start callback is called: it raises and
\* the record is marked failed, or it returns a started manager
ExecuteRecordingJob(j) ==
    /\ JobDue(j)
    /\ aps_jobs' = JobsAfterRun(j)
    /\ evaluated_at' = [evaluated_at EXCEPT ![j] = now]
    /\ sched_call' = SchedCall("fire", TRUE, Head(aps_jobs[j]).cron)
    /\ IF schedule_db[j].stored /\ schedule_db[j].is_active /\ CanStartRecording
       THEN LET s == NextSessionId IN
            /\ s \in Sessions
            /\ fire_log' = [fire_log EXCEPT ![j] = "admitted"]
            /\ session_schedule' = [session_schedule EXCEPT ![s] = j]
            /\ schedule_db' = [schedule_db EXCEPT
                                  ![j].last_run_time = now,
                                  ![j].next_run_time =
                                      GetNext(schedule_db[j].cron_expression, now)]
            /\ \E raises \in BOOLEAN :
                 IF raises
                 THEN /\ session_db' = [session_db EXCEPT ![s] = "failed"]
                      /\ UNCHANGED <<active_sessions, current_stage, raw_recording_path,
                                     processed_mp3_path, starts, wf>>
                 ELSE /\ session_db' = [session_db EXCEPT ![s] = "scheduled"]
                      /\ active_sessions' = active_sessions \cup {s}
                      /\ UpdateStatus(s, "initializing")
                      /\ raw_recording_path' =
                             [raw_recording_path EXCEPT ![s] = GeneratedPath(s)]
                      /\ processed_mp3_path' =
                             [processed_mp3_path EXCEPT ![s] = GeneratedPath(s)]
                      /\ starts' = [starts EXCEPT ![s] = @ + 1]
                      /\ SetWf(s, starts[s] + 1, "run")
       ELSE /\ fire_log' = [fire_log EXCEPT ![j] = "skipped"]
            /\ UNCHANGED <<schedule_db, session_schedule, session_db, active_sessions,
                           current_stage, raw_recording_path, processed_mp3_path,
                           starts, wf>>
    /\ UNCHANGED <<aps_running, job, retry_count, error_message, stop_event,
                   stream_recorder, recorder, files, cleanup_policy, proc_ok,
                   stopped_in, capture_fault, queueVars, clientVars, callbackVars>>

\* one session constructed on request, every operation of the manager open
\* to its callers
InitSession ==
    /\ InitManagerFields({1})
    /\ files = {}
    /\ cleanup_policy \in BOOLEAN
    /\ InitScheduler
    /\ InitTransferQueue
    /\ InitClient
    /\ InitTriggers
    /\ InitCallbacks

\* the start request of the creator of the session (one per session), and a
\* start request repeated by any caller
FirstStart(s) == starts[s] = 0 /\ StartRecording(s)

RepeatedStart(s) ==
    /\ starts[s] > 0
    /\ ExtraStarts(s) < MaxExtraStarts
    /\ StartRecording(s)

\* the steps of the workflow threads, recorder threads and ffmpeg processes
SessionSteps(s) ==
    \E k \in Slots :
        \/ WfRun(s, k)
        \/ WfRecValidate(s, k)
        \/ WfRecWait(s, k)
        \/ WfRecJoin(s, k)
        \/ WfRecCheck(s, k)
        \/ WfProcessing(s, k)
        \/ WfTransfer(s, k)
        \/ WfSetFailed(s, k)
        \/ RecSpawn(s, k)
        \/ ProcOpenOutput(s, k)
        \/ ProcExit(s, k)
        \/ RecMonitor(s, k)

NextSession ==
    /\ \E s \in {1} :
        \/ FirstStart(s)
        \/ StartRecordingRefused(s)
        \/ StopRecording(s)
        \/ RetryWorkflow(s)
        \/ RetryWorkflowRefused(s)
        \/ SessionSteps(s)
    /\ UNCHANGED <<schedVars, queueVars, clientVars, callbackVars, triggerVars>>

SpecSession == InitSession /\ [][NextSession]_vars

\* the same session without retries, with repeated start requests
NextStart ==
    /\ \E s \in {1} :
        \/ FirstStart(s)
        \/ RepeatedStart(s)
        \/ StartRecordingRefused(s)
        \/ StopRecording(s)
        \/ SessionSteps(s)
    /\ UNCHANGED <<schedVars, queueVars, clientVars, callbackVars, triggerVars>>

SpecStart == InitSession /\ [][NextStart]_vars

\* the same session with repeated start requests and retries, never stopped
NextRace ==
    /\ \E s \in {1} :
        \/ FirstStart(s)
        \/ RepeatedStart(s)
        \/ RetryWorkflow(s)
        \/ SessionSteps(s)
    /\ UNCHANGED <<schedVars, queueVars, clientVars, callbackVars, triggerVars>>

SpecRace == InitSession /\ [][NextRace]_vars

\* the same session started once, with stop requests whose steps interleave
\* with the recording thread
StopCallerSteps ==
    /\ \E s \in {1} : StopRecordingWrite(s)
    /\ UNCHANGED <<schedVars, queueVars, clientVars, callbackVars, triggerVars>>

SessionThreadSteps ==
    /\ \E s \in {1} : SessionSteps(s)
    /\ UNCHANGED <<schedVars, queueVars, clientVars, callbackVars, triggerVars>>

NextStop ==
    \/ /\ \E s \in {1} : FirstStart(s) \/ StopRecordingTest(s)
       /\ UNCHANGED <<schedVars, queueVars, clientVars, callbackVars, triggerVars>>
    \/ StopCallerSteps
    \/ SessionThreadSteps

\* every thread that is running keeps running
FairStop ==
    /\ InitSession
    /\ [][NextStop]_vars
    /\ WF_vars(StopCallerSteps)
    /\ WF_vars(SessionThreadSteps)

\* the scheduler with its schedules and the sessions its fires create
InitSched ==
    /\ InitManagerFields({})
    /\ files = {}
    /\ cleanup_policy \in BOOLEAN
    /\ InitScheduler
    /\ InitTransferQueue
    /\ InitClient
    /\ InitTriggers
    /\ InitCallbacks

NextSched ==
    /\ \/ \E j \in Schedules : FireCheck(j) \/ FireCreate(j)
       \/ \E s \in Sessions : SessionSteps(s) /\ UNCHANGED schedVars
    /\ UNCHANGED <<queueVars, clientVars, callbackVars, triggerVars>>

SpecSched == InitSched /\ [][NextSched]_vars

\* the threads of the sessions keep running
SchedSessionSteps ==
    \E s \in Sessions :
        SessionSteps(s) /\ UNCHANGED <<schedVars, queueVars, clientVars, callbackVars,
                                       triggerVars>>

FairSched == InitSched /\ [][NextSched]_vars /\ WF_vars(SchedSessionSteps)

\* the transfer queue with its worker, the operator's calls and the clock
InitQueue ==
    /\ InitManagerFields({})
    /\ files = {QueueFile(id) : id \in TransferIds}
    /\ cleanup_policy \in BOOLEAN
    /\ InitScheduler
    /\ InitTransferQueue
    /\ InitClient
    /\ InitTriggers
    /\ InitCallbacks

\* a local file is deleted from outside the queue
FileVanishes(f) ==
    /\ f \in files
    /\ files' = files \ {f}
    /\ UNCHANGED <<queueVars, schedVars, clientVars, callbackVars, triggerVars, current_stage, retry_count, error_message,
                   stop_event, raw_recording_path, processed_mp3_path, stream_recorder,
                   starts, wf, recorder, cleanup_policy, proc_ok, stopped_in,
                   capture_fault>>

NextQueue ==
    \/ \E id \in TransferIds : FileVanishes(QueueFile(id))
    \/ \E prio \in 0..MaxPriority, mx \in 0..(DEFAULT_MAX_RETRIES + 1), delay \in 0..1 :
           AddTransfer(QueueFile(NextTransferId), prio, mx, delay)
    \/ \E id \in TransferIds : AddTransferMissing(QueueFile(id))
    \/ \E id \in TransferIds, delay \in 0..1 : RetryFailedTransfer(id, delay)
    \/ \E id \in TransferIds : RetryFailedTransferRefused(id) \/ RemoveTransfer(id)
    \/ WorkerGet
    \/ WorkerUpload
    \/ WorkerResult
    \/ Restart
    \/ Tick

SpecQueue == InitQueue /\ [][NextQueue]_vars

\* the queue with several entries of different priorities and no operator:
\* entries are added, the worker drains them
ReadyIds == 1..MaxReadyTransfers

InitDrain ==
    /\ InitManagerFields({})
    /\ files = {QueueFile(id) : id \in ReadyIds}
    /\ cleanup_policy \in BOOLEAN
    /\ InitScheduler
    /\ InitTransferQueueOn(ReadyIds)
    /\ InitClient
    /\ InitTriggers
    /\ InitCallbacks

DrainTick == TickUpTo(MaxDrainTime)

DrainSteps ==
    \/ \E id \in ReadyIds : FileVanishes(QueueFile(id))
    \/ \E prio \in 0..MaxDrainPriority, mx \in 1..MaxDrainRetries, delay \in 0..1 :
           AddTransfer(QueueFile(NextTransferId), prio, mx, delay)
    \/ WorkerGet
    \/ WorkerUpload
    \/ WorkerResult
    \/ DrainTick

\* the transfer client with one local file, called again and again
ClientFile == QueueFile(1)

InitTransfer ==
    /\ InitManagerFields({})
    /\ files = {ClientFile}
    /\ cleanup_policy \in BOOLEAN
    /\ InitScheduler
    /\ InitTransferQueue
    /\ InitClient
    /\ InitTriggers
    /\ InitCallbacks

NextClient ==
    \/ \E dest_ok \in BOOLEAN, key \in KeyStates, password \in BOOLEAN :
           TransferFile(ClientFile, dest_ok, key, password)
    \/ ClientConnect
    \/ ClientPut
    \/ ClientReturn
    \/ FileVanishes(ClientFile)

SpecClient == InitTransfer /\ [][NextClient]_vars

\* one session whose workflow runs with callbacks registered
InitNotify ==
    /\ InitManagerFields({1})
    /\ files = {}
    /\ cleanup_policy = TRUE
    /\ InitScheduler
    /\ InitTransferQueue
    /\ InitClient
    /\ InitTriggers
    /\ status_callback \in CallbackKinds
    /\ progress_callback \in CallbackKinds
    /\ lock = "free"
    /\ cb_pc = "ready"
    /\ plan \in WorkflowPlans
    /\ next_call = 1
    /\ stages_written = <<>>

NextNotify ==
    \/ UpdateStatusCall
    \/ StatusCallbackRuns
    \/ UpdateProgressCall
    \/ ProgressCallbackRuns
    \/ CallbackGetSessionInfo
    \/ CallbackGotSessionInfo
    \/ GetSessionInfo
    \/ GotSessionInfo

SpecNotify == InitNotify /\ [][NextNotify]_vars

\* the scheduler and the job manager of a new process on an empty store
InitTrigger ==
    /\ InitManagerFields({})
    /\ files = {}
    /\ cleanup_policy = TRUE
    /\ InitScheduler
    /\ InitTransferQueue
    /\ InitClient
    /\ InitTriggers
    /\ InitCallbacks

NextTrigger ==
    \/ SchedulerStart
    \/ SchedulerStop
    \/ \E expr \in CronInputs, active \in BOOLEAN : CreateJob(expr, active)
    \/ \E id \in Schedules, expr \in CronInputs, active \in BOOLEAN :
          UpdateJob(id, expr, active)
    \/ \E id \in Schedules : ActivateJob(id) \/ DeactivateJob(id) \/ DeleteJob(id)
    \/ \E id \in Schedules :
          \E expr \in MalformedInputs \cup {schedule_db[id].cron_expression} :
             AddScheduleCall(id, expr)
    \/ \E id \in Schedules :
          \E expr \in MalformedInputs \cup {schedule_db[id].cron_expression} :
             UpdateScheduleCall(id, expr)

SpecTrigger == InitTrigger /\ [][NextTrigger]_vars

\* the running scheduler with the clock, the fires of its jobs, the first
\* step of the workflows the fires start, and the deletion of triggers
ClockTick == TickUpTo(MaxClock)

NextFire ==
    \/ SchedulerStart
    \/ \E expr \in {EveryMinute, EvenMinutes} : CreateJob(expr, TRUE)
    \/ \E j \in Schedules : ExecuteRecordingJob(j)
    \/ \E id \in Schedules : DeleteJob(id)
    \/ \E s \in Sessions, k \in Slots :
          WfRun(s, k) /\ UNCHANGED <<schedVars, queueVars, clientVars, callbackVars,
                                     triggerVars>>
    \/ ClockTick

SpecFire == InitTrigger /\ [][NextFire]_vars

\* one run of the process from startup to shutdown: the scheduler with one
\* trigger, the sessions its fires start with all their threads, and the
\* stop at shutdown
NextShutdown ==
    \/ sched_call = NoCallYet /\ SchedulerStart
    \/ NextScheduleId = 1 /\ CreateJob(EveryMinute, TRUE)
    \/ \E j \in Schedules : ExecuteRecordingJob(j)
    \/ SchedSessionSteps
    \/ SchedulerStop
    \/ ClockTick

SpecShutdown == InitTrigger /\ [][NextShutdown]_vars

\* the queue with its worker and the clock, no operator, and the process
\* ending and starting again on the same store at any time
NextRestart ==
    \/ \E mx \in 1..MaxDrainRetries : AddTransfer(QueueFile(NextTransferId), 0, mx, 0)
    \/ WorkerGet
    \/ WorkerUpload
    \/ WorkerResult
    \/ DrainTick
    \/ Restart

\* the worker thread of the running process keeps running and the clock
\* keeps going
FairRestart ==
    /\ InitQueue
    /\ [][NextRestart]_vars
    /\ WF_vars(WorkerGet)
    /\ WF_vars(WorkerUpload)
    /\ WF_vars(WorkerResult)
    /\ WF_vars(DrainTick)

\* the worker thread keeps running and the clock keeps going
FairDrain ==
    /\ InitDrain
    /\ [][DrainSteps]_vars
    /\ WF_vars(WorkerGet)
    /\ WF_vars(WorkerUpload)
    /\ WF_vars(WorkerResult)
    /\ WF_vars(DrainTick)

(***************************************************************************)
(* Properties of the session workflow                                      *)
(***************************************************************************)

\* C3: every started attempt ends in a terminal stage: once a session has
\* been started and none of its workflow threads is alive any more, its
\* stage is Completed, Failed or Cancelled.
C3_AttemptEndsTerminal ==
    \A s \in Sessions :
        (starts[s] > 0 /\ LiveTasks(s) = {}) => current_stage[s] \in TerminalStages

\* C4: once capture and processing have succeeded (and no stop was asked),
\* the session ends Completed whatever the outcome of the upload.
C4_HandOffCompletes ==
    \A s \in Sessions :
        (proc_ok[s] /\ stopped_in[s] = "none" /\ LiveTasks(s) = {})
            => current_stage[s] = "completed"

\* C5: a stop request accepted during Recording, with a capture that did not
\* fail by itself, ends the session Cancelled (not Failed).
C5_StopInRecordingCancels ==
    \A s \in Sessions :
        (stopped_in[s] = "recording" /\ ~capture_fault[s] /\ LiveTasks(s) = {})
            => current_stage[s] = "cancelled"

AllowedEdges ==
    {<<"initializing", "recording">>, <<"recording", "processing">>,
     <<"processing", "transferring">>, <<"transferring", "completed">>,
     <<"failed", "initializing">>}
    \cup ((WorkflowStage \ TerminalStages) \X {"failed", "cancelled"})

\* C6: the stage of a session changes only along the edges of the workflow:
\* Initializing-Recording-Processing-Transferring-Completed, a non-terminal
\* stage to Failed or Cancelled, Failed to Initializing (retry).
C6_StageEdges ==
    [][\A s \in Sessions :
          current_stage'[s] # current_stage[s]
              => <<current_stage[s], current_stage'[s]>> \in AllowedEdges]_vars

\* C7: the retry counter changes only by an accepted retry (stage Failed,
\* counter below the maximum, counter + 1, stage reset to Initializing); a
\* refused retry changes neither stage nor counter; Failed is left only by an
\* accepted retry; the counter never exceeds the maximum and a session has
\* at most maximum + 1 attempts.
C7_RetryBounded ==
    /\ [](\A s \in Sessions :
            /\ retry_count[s] <= DEFAULT_MAX_RETRIES
            /\ starts[s] <= DEFAULT_MAX_RETRIES + 1)
    /\ [][\A s \in Sessions :
            /\ retry_count'[s] # retry_count[s]
                 => /\ current_stage[s] = "failed"
                    /\ retry_count[s] < DEFAULT_MAX_RETRIES
                    /\ retry_count'[s] = retry_count[s] + 1
                    /\ current_stage'[s] = "initializing"
            /\ (current_stage[s] = "failed" /\ current_stage'[s] # "failed")
                 => retry_count'[s] = retry_count[s] + 1
            /\ (error_message'[s] # error_message[s]
                  /\ error_message'[s] \in {"max_retries", "cannot_retry"})
                 => /\ current_stage'[s] = current_stage[s]
                    /\ retry_count'[s] = retry_count[s]]_vars

\* a session that used all its retries, failed again and had a further
\* retry refused
C7_Witness ==
    /\ retry_count[1] = DEFAULT_MAX_RETRIES
    /\ current_stage[1] = "failed"
    /\ error_message[1] = "max_retries"

\* C8: every raw or processed file of a session on disk belongs to its
\* current attempt: no file of an earlier attempt is left once a retry has
\* started.
C8_NoFileOfEarlierAttempt ==
    \A f \in files : f[1] \in Sessions => f[3] = retry_count[f[1]] + 1

(***************************************************************************)
(* Properties of the admission control                                     *)
(***************************************************************************)

C9_AtMostMaxRetriesUploads ==
    \A id \in TransferIds :
        (enqueued[id] # 0 /\ id \notin manual) => uploads[id] <= enqueued[id]

\* C10: an entry that ran out of retries stays in the store with status
\* failed and in the pending list until an operator removes or retries it,
\* and every enqueued entry is in the store unless its upload succeeded or
\* an operator removed it.
C10_ExhaustedEntryRetained ==
    /\ \A id \in exhausted :
          /\ tq_db[id].status = "failed"
          /\ \E i \in 1..Len(GetPendingTransfers(DefaultPendingLimit)) :
                 GetPendingTransfers(DefaultPendingLimit)[i] = id
    /\ \A id \in TransferIds :
          enqueued[id] # 0 =>
              \/ tq_db[id].status # "none"
              \/ id \in uploaded
              \/ id \in manual

\* C11: once the upload of an entry has succeeded, no record with its id is
\* in the store, and its file is never uploaded again.
C11_UploadedEntryGone ==
    /\ [](\A id \in uploaded : tq_db[id].status = "none")
    /\ [][\A id \in uploaded : uploads'[id] = uploads[id]]_vars

\* a call of the queue's interface returns in this step
Returns(op) == tq_call'.seq # tq_call.seq /\ tq_call'.op = op

\* C12: a manual retry of a permanently failed entry is accepted and leaves
\* the entry queued again.
C12_FailedEntryRetryable ==
    [][\A id \in DOMAIN tq_db :
          (Returns("retry") /\ tq_call'.id = id /\ tq_db[id].status = "failed")
              => (tq_call'.ok /\ tq_db'[id].status = "queued")]_vars

\* C13: retry(id) returns False and leaves the store and the ready queue as
\* they are when the id is unknown or the persisted attempt count is at or
\* above max_retries; otherwise it returns True, adds one to the persisted
\* attempt count, sets an eligible time not before the call, marks the record
\* queued and appends the entry to the ready queue.
C13_RetryContract ==
    [][\A id \in DOMAIN tq_db :
          (Returns("retry") /\ tq_call'.id = id) =>
              IF (IF tq_db[id].status = "none" THEN TRUE
                  ELSE tq_db[id].retry_count >= tq_db[id].max_retries)
              THEN /\ ~tq_call'.ok
                   /\ tq_db' = tq_db
                   /\ tq_queue' = tq_queue
              ELSE /\ tq_call'.ok
                   /\ tq_db'[id].status = "queued"
                   /\ tq_db'[id].retry_count = tq_db[id].retry_count + 1
                   /\ tq_db'[id].scheduled_at >= now
                   /\ tq_db'[id].max_retries = tq_db[id].max_retries
                   /\ tq_db'[id].local_path = tq_db[id].local_path
                   /\ tq_db'[id].priority = tq_db[id].priority
                   /\ \A o \in DOMAIN tq_db \ {id} : tq_db'[o] = tq_db[o]
                   /\ Len(tq_queue') = Len(tq_queue) + 1
                   /\ SubSeq(tq_queue', 1, Len(tq_queue)) = tq_queue
                   /\ tq_queue'[Len(tq_queue')].id = id
                   /\ tq_queue'[Len(tq_queue')].retry_count = tq_db'[id].retry_count
                   /\ tq_queue'[Len(tq_queue')].scheduled_at = tq_db'[id].scheduled_at]_vars

\* a retry was refused for a stored entry at its limit
C13_Witness ==
    /\ tq_call.op = "retry"
    /\ ~tq_call.ok
    /\ tq_call.id \in DOMAIN tq_db
    /\ tq_db[tq_call.id].status = "failed"
    /\ tq_db[tq_call.id].retry_count = tq_db[tq_call.id].max_retries

\* the worker takes the head of the ready queue in this step
WorkerTakes ==
    /\ worker.pc = "get"
    /\ tq_queue # <<>>
    /\ tq_queue' = Tail(tq_queue)
    /\ tq_call' = tq_call

\* C14: whenever the worker takes an entry, no other eligible entry of the
\* ready queue has a strictly higher priority, and none of equal priority has
\* an earlier eligible time.
C14_TakesHighestPriority ==
    [][WorkerTakes =>
          \A i \in 2..Len(tq_queue) :
              tq_queue[i].scheduled_at <= now =>
                  /\ tq_queue[i].priority <= Head(tq_queue).priority
                  /\ (tq_queue[i].priority = Head(tq_queue).priority
                          => tq_queue[i].scheduled_at >= Head(tq_queue).scheduled_at)]_vars

\* C15: a restart on the same store loses no entry: every record that was in
\* the store before the restart is in it afterwards with the same path,
\* attempt count, max_retries, priority, eligible time and status.
C15_RestartKeepsEntries ==
    [][Returns("restart") =>
          \A id \in DOMAIN tq_db :
              tq_db[id].status # "none" => tq_db'[id] = tq_db[id]]_vars

\* a restart has happened on a store that holds an entry
C15_Witness ==
    /\ tq_call.op = "restart"
    /\ \E id \in DOMAIN tq_db : tq_db[id].status \in {"queued", "processing", "failed"}

\* entry id has just been enqueued with an eligible time that lies ahead and
\* that the clock reaches
EnqueuedWithDelay(id) ==
    /\ tq_call.op = "add"
    /\ tq_call.ok
    /\ tq_call.id = id
    /\ tq_db[id].status = "queued"
    /\ tq_db[id].scheduled_at > now
    /\ tq_db[id].scheduled_at <= MaxDrainTime

\* the worker has taken entry id: it is attempting it, or has marked it
\* failed or removed its record
TakenByWorker(id) ==
    \/ worker.cur.id = id
    \/ tq_db[id].status \in {"failed", "none"}

\* C16: an entry enqueued with a positive initial delay is taken by the
\* running worker at some time, with no restart in between, and the worker
\* takes no entry before its eligible time.
C16_DelayedEntryAttempted ==
    /\ \A id \in ReadyIds : EnqueuedWithDelay(id) ~> TakenByWorker(id)
    /\ [][WorkerTakes => Head(tq_queue).scheduled_at <= now]_vars

\* the worker ends a failed attempt in this step
AttemptFails ==
    /\ worker.pc = "result"
    /\ ~worker.ok
    /\ worker'.pc = "get"
    /\ tq_call' = tq_call

\* the delays after the first M - 1 failures of an entry
RECURSIVE SumDelays(_)
SumDelays(M) == IF M <= 1 THEN 0 ELSE SumDelays(M - 1) + RetryDelay(M - 1)

\* C17: after the k-th failed attempt of an entry, k below its max_retries,
\* the entry is stored queued with attempt count k and eligible time = time
\* of the failure + base * 2^(k-1), and is in the ready queue with that time;
\* the worker takes no entry before its eligible time; the delays of an entry
\* that fails M times sum to base * (2^(M-1) - 1).
C17_ExponentialBackoff ==
    /\ [][AttemptFails =>
             LET t == worker.cur
                 k == t.retry_count + 1
             IN k < t.max_retries =>
                    /\ tq_db'[t.id].status = "queued"
                    /\ tq_db'[t.id].retry_count = k
                    /\ tq_db'[t.id].scheduled_at = now + RETRY_DELAY_SECONDS * 2 ^ (k - 1)
                    /\ tq_queue' = Append(tq_queue,
                           [t EXCEPT !.retry_count = k,
                                     !.scheduled_at = tq_db'[t.id].scheduled_at])]_vars
    /\ [][(WorkerTakes /\ worker'.pc = "upload") => worker'.cur.scheduled_at <= now]_vars
    /\ [](\A M \in 1..(MaxDrainRetries + 1) :
             SumDelays(M) = RETRY_DELAY_SECONDS * (2 ^ (M - 1) - 1))

\* the second attempt of an entry with three attempts has just failed
C17_Witness ==
    /\ worker.pc = "get"
    /\ tq_queue # <<>>
    /\ LET t == tq_queue[Len(tq_queue)]
       IN /\ t.retry_count = 2
          /\ t.max_retries = 3
          /\ t.scheduled_at = now + 2 * RETRY_DELAY_SECONDS
          /\ tq_db[t.id].status = "queued"
          /\ tq_db[t.id].retry_count = 2

\* C18: when the worker takes an entry whose local file is gone, the record
\* of the entry becomes failed with its attempt count as it was, no upload
\* is made and the worker goes on to its next get.
C18_MissingFileFailsWithoutAttempt ==
    [][(WorkerTakes /\ Head(tq_queue).local_path \notin files) =>
          LET id == Head(tq_queue).id
          IN /\ IF tq_db[id].status = "none"
                THEN tq_db'[id] = tq_db[id]
                ELSE tq_db'[id] = [tq_db[id] EXCEPT !.status = "failed"]
             /\ \A o \in DOMAIN tq_db \ {id} : tq_db'[o] = tq_db[o]
             /\ uploads' = uploads
             /\ worker' = worker
             /\ worker'.pc = "get"]_vars

\* an entry is failed with no attempt made and no upload, its file gone
C18_Witness ==
    \E id \in DOMAIN tq_db :
        /\ tq_db[id].status = "failed"
        /\ tq_db[id].retry_count = 0
        /\ tq_db[id].local_path \notin files
        /\ uploads[id] = 0
        /\ id \notin exhausted
        /\ worker.pc = "get"

\* entry id is in the ready queue and its eligible time has come
ReadyAndEligible(id) ==
    \E i \in 1..Len(tq_queue) : tq_queue[i].id = id /\ tq_queue[i].scheduled_at <= now

\* entry id is out of the ready queue: the worker has taken it
OffTheQueue(id) == \A i \in 1..Len(tq_queue) : tq_queue[i].id # id

\* C19: while the worker runs, every entry that is ready and eligible is
\* taken by the worker at some time, whatever happens to the entry the worker
\* is handling (failed upload, exception) and whether or not the entry at the
\* head of the queue is eligible.
C19_WorkerKeepsDraining ==
    \A id \in ReadyIds : ReadyAndEligible(id) ~> OffTheQueue(id)

\* entry 2 is being attempted after entry 1 failed, while entry 1 waits in
\* the ready queue for its eligible time
C19_Witness ==
    /\ worker.cur.id = 2
    /\ worker.pc = "upload"
    /\ tq_queue # <<>>
    /\ Head(tq_queue).id = 1
    /\ Head(tq_queue).retry_count >= 1
    /\ Head(tq_queue).scheduled_at > now

\* C20: an enqueue of a path with no file fails and leaves the store and the
\* ready queue as they are; an enqueue of an existing file succeeds and adds
\* exactly one record, with status queued, attempt count 0, the given
\* priority and eligible time = now + delay, all other records unchanged.
C20_EnqueueContract ==
    [][/\ \A id \in TransferIds :
              AddTransferMissing(QueueFile(id)) =>
                  /\ ~tq_call'.ok
                  /\ tq_db' = tq_db
                  /\ tq_queue' = tq_queue
       /\ \A prio \in 0..MaxPriority, mx \in 0..(DEFAULT_MAX_RETRIES + 1), delay \in 0..1 :
              AddTransfer(QueueFile(NextTransferId), prio, mx, delay) =>
                  LET id == NextTransferId
                  IN /\ tq_call'.ok
                     /\ tq_call'.id = id
                     /\ tq_db[id].status = "none"
                     /\ tq_db'[id].status = "queued"
                     /\ tq_db'[id].retry_count = 0
                     /\ tq_db'[id].priority = prio
                     /\ tq_db'[id].scheduled_at = now + delay
                     /\ tq_db'[id].local_path = QueueFile(id)
                     /\ \A o \in DOMAIN tq_db \ {id} : tq_db'[o] = tq_db[o]
       /\ (Returns("add") /\ tq_call'.ok) => tq_db'[tq_call'.id].local_path \in files
       /\ (Returns("add") /\ ~tq_call'.ok) => tq_db' = tq_db /\ tq_queue' = tq_queue]_vars

\* an enqueue has failed while an entry enqueued with a delay is in the store
C20_Witness ==
    /\ tq_call.op = "add"
    /\ ~tq_call.ok
    /\ \E id \in DOMAIN tq_db :
          /\ tq_db[id].status = "queued"
          /\ tq_db[id].retry_count = 0
          /\ tq_db[id].scheduled_at > now
    /\ tq_queue = <<>>

\* C23: in every state a session in stage Failed has a failure reason, and
\* at every change to Failed the reason is there.
C23_FailedHasReason ==
    /\ [](\A s \in Sessions : current_stage[s] = "failed" => error_message[s] # "none")
    /\ [][\A s \in Sessions :
             (current_stage[s] # "failed" /\ current_stage'[s] = "failed")
                 => error_message'[s] # "none"]_vars

\* a step of the transfer client
ClientStep == scp' # scp

\* C21: the transfer client removes the local file only in the step in which
\* an upload of that file succeeds, and only when the cleanup policy is on;
\* no other step of the client removes a file.
C21_CleanupOnlyAfterSuccess ==
    [][\A f \in files :
          (ClientStep /\ f \notin files') =>
              /\ f = scp.local_path
              /\ scp'.result = "success"
              /\ cleanup_policy]_vars

\* an upload has succeeded with the policy on and the file has been removed
C21_Witness ==
    /\ scp.result = "success"
    /\ cleanup_policy
    /\ scp.local_path \notin files

\* C22: a call that has neither a private key that loads nor a password makes
\* no connection to the remote host, and the password is the credential only
\* when the key could not be used.
C22_NoCredentialNoConnect ==
    /\ (scp.pc # "idle" /\ scp.key # "loadable" /\ ~scp.password) => scp.connects = 0
    /\ scp.auth = "password" => scp.key # "loadable"

\* C26: during one call of the transfer client, the values passed to the
\* progress callback never decrease, the passes of the retry loop included.
C26_ProgressNeverDecreases ==
    [][(scp.pc # "idle" /\ scp'.pc # "idle") => scp'.progress >= scp.progress]_vars

\* C24: with a stage-change or a progress callback that raises, the workflow
\* thread is never ended by the exception, it writes the stages of its plan
\* in their order, and when it has ended all of them are written and the
\* session is in the terminal stage of the plan.
C24_CallbackExceptionCaught ==
    ("raises" \in {status_callback, progress_callback}) =>
        /\ cb_pc # "died"
        /\ stages_written = SubSeq(StagesOf(plan), 1, Len(stages_written))
        /\ cb_pc = "finished" =>
              /\ stages_written = StagesOf(plan)
              /\ current_stage[1] = plan[Len(plan)].stage

\* both callbacks raise at every call and the workflow has ended Completed
C24_Witness ==
    /\ status_callback = "raises"
    /\ progress_callback = "raises"
    /\ cb_pc = "finished"
    /\ current_stage[1] = "completed"

\* C25: the workflow thread is never held by a callback: it does not wait
\* for a callback that blocks, and a callback that reads the session info
\* never waits for the session lock while the workflow thread itself holds it.
C25_CallbackCannotStall ==
    /\ cb_pc # "blocked"
    /\ ~(cb_pc \in {"status_reads", "progress_reads"} /\ lock = "workflow")

\* a capture process of session s is running
CaptureAlive(s) == \E k \in Slots : ProcRunning(recorder[s][k])

\* C27: after a stop request, a session does not enter a terminal stage
\* while a capture process of the session is still running.
C27_NoTerminalWhileCaptureAlive ==
    [][\A s \in Sessions :
          (/\ stop_event[s]
           /\ current_stage[s] \notin TerminalStages
           /\ current_stage'[s] \in TerminalStages) => ~CaptureAlive(s)']_vars

(***************************************************************************)
(* Properties of the triggers                                              *)
(***************************************************************************)

\* five fields, each within minute 0-59, hour 0-23, day 1-31, month 1-12,
\* weekday 0-6
WellFormed(expr) ==
    /\ Len(expr) = 5
    /\ expr[1] \subseteq 0..59
    /\ expr[2] \subseteq 0..23
    /\ expr[3] \subseteq 1..31
    /\ expr[4] \subseteq 1..12
    /\ expr[5] \subseteq 0..6

\* C28: an expression with a wrong number of fields or a field out of range
\* does not validate, and create, update, add_schedule and update_schedule
\* called with one are rejected and change neither the jobs nor the stored
\* triggers.
C28_MalformedCronRejected ==
    /\ [](\A expr \in CronSamples : ~WellFormed(expr) => ~ValidateCronExpression(expr))
    /\ [][(sched_call' # sched_call /\ ~sched_call'.in_range)
             => /\ ~sched_call'.ok
                /\ UNCHANGED <<aps_jobs, schedule_db>>]_vars

\* update_schedule with a malformed expression has been rejected for an
\* active trigger, whose job is still there
C28_Witness ==
    /\ sched_call.op = "update_schedule"
    /\ ~sched_call.in_range
    /\ ~sched_call.ok
    /\ \E j \in Schedules : schedule_db[j].is_active /\ Len(aps_jobs[j]) = 1

ActiveIffJob(j) ==
    (schedule_db[j].stored /\ schedule_db[j].is_active) <=> aps_jobs[j] # <<>>

\* a JobManager operation on trigger j returns
JobManagerReturns(j) ==
    \/ j = NextScheduleId /\ \E expr \in CronInputs, active \in BOOLEAN : CreateJob(expr, active)
    \/ \E expr \in CronInputs, active \in BOOLEAN : UpdateJob(j, expr, active)
    \/ ActivateJob(j)
    \/ DeactivateJob(j)
    \/ DeleteJob(j)

NonTerminalSessions(id) ==
    {s \in ReferringSessions(id) :
        s \in active_sessions /\ current_stage[s] \notin TerminalStages}

Removed(id) ==
    /\ enqueued[id] # 0
    /\ tq_db[id].status = "none"
    /\ id \notin uploaded

\* C35: once remove(id) has returned, the worker makes no upload of the
\* entry's file and no record with that id comes back into the store.
C35_RemovedStaysRemoved ==
    [][\A id \in TransferIds :
          Removed(id) => /\ tq_db'[id].status = "none"
                         /\ uploads'[id] = uploads[id]]_vars

\* the positions of the ready queue that hold entry id
QueuePositions(id) == {i \in 1..Len(tq_queue) : tq_queue[i].id = id}

\* C36: at every time an entry id occurs at most once in the in-memory
\* ready queue.
C36_AtMostOnceInReadyQueue ==
    \A id \in TransferIds : Cardinality(QueuePositions(id)) <= 1

\* C37: an entry that the worker has failed permanently by exhausting its
\* retries is stored with an attempt count equal to its max_retries (the
\* number of failed attempts the worker has made for it).
C37_ExhaustedCountIsMaxRetries ==
    \A id \in DOMAIN tq_db :
        (id \in exhausted /\ tq_db[id].status = "failed")
            => tq_db[id].retry_count = tq_db[id].max_retries

\* the process has started again and the store holds entry id neither
\* completed nor permanently failed
PendingAtRestart(id) ==
    /\ tq_call.op = "restart"
    /\ tq_db[id].status \in {"queued", "processing"}

\* C38: after a restart, every entry of the store that is neither completed
\* nor permanently failed is attempted again by the worker at some time.
C38_PendingAttemptedAfterRestart ==
    \A id \in TransferIds : PendingAtRestart(id) ~> (worker.cur.id = id)

TerminalStatuses == {"completed", "failed"}

\* C39: a recorder whose status is Completed or Failed keeps that status,
\* every recorder that has left Idle ends in Completed or Failed, start is
\* accepted only in Idle and stop only in Connecting or Recording.
C39_TerminalStatusIsFinal ==
    /\ [][\A s \in Sessions, k \in Slots :
            LET r == recorder[s][k]
                r2 == recorder'[s][k]
            IN /\ r.status \in TerminalStatuses
                    => (r2.status = r.status \/ r2 = NoRecorder)
               /\ (r2.status = "connecting" /\ r.status # "connecting")
                    => r.status = "idle"
               /\ (r2.stop_caller = "tested" /\ r.stop_caller = "none")
                    => r.status \in {"connecting", "recording"}]_vars
    /\ \A s \in Sessions, k \in Slots :
            (recorder[s][k].status # "idle")
                ~> (recorder[s][k].status \in TerminalStatuses)

\* the capture processes of session s that are running
RunningCaptures(s) == {k \in Slots : ProcRunning(recorder[s][k])}

\* C40: at any time at most one workflow thread is alive for a session and
\* at most one of its capture processes is running.
C40_OneWorkflowTaskPerSession ==
    \A s \in Sessions :
        /\ Cardinality(LiveTasks(s)) <= 1
        /\ Cardinality(RunningCaptures(s)) <= 1

====
